---- MODULE Spec2Model ----
(***************************************************************************)
(* Control plane of the LiDAR point-cloud platform (4ereshkin/clod).       *)
(*                                                                         *)
(* Three specifications share this module:                                 *)
(*   SpecIngest  - the ingest-run state machine: the create_ingest_run and *)
(*                 process_ingest_run activities of IngestWorkflow, the    *)
(*                 polling worker loop of ingest_worker.main, and the      *)
(*                 repository operations they call.                        *)
(*   SpecCatalog - datasets and dataset versions: ensure_dataset,          *)
(*                 ensure_dataset_version, bump_dataset_version as         *)
(*                 PostgreSQL READ COMMITTED transactions.                 *)
(*   SpecUseCase - StartIngestUseCase.execute with the status store, the   *)
(*                 event publisher and the workflow gateway.               *)
(***************************************************************************)
EXTENDS Integers, Sequences, FiniteSets, TLC

(***************************************************************************)
(* Bounds of the model.                                                    *)
(***************************************************************************)
NumWorkers == 2
NumFlows == 2
MaxRawArtifacts == 1

Workers == 1..NumWorkers
Flows == 1..NumFlows
\* every workflow execution inserts at most one ingest run
RunIds == 1..NumFlows
Companies == {"co1", "co2"}
ScanIds == {"s1"}
Etags == {"e1", "e2"}
NumTxns == 2
MaxVersions == 2
DatasetNames == {"n1", "n2"}
CrsIds == {"crs1", "crs2"}
NumExecs == 2
NumUpserts == 2
MaxDerivedUploads == 2
MaxRawUploads == 2
MaxScans == 2
PipelineScans == 2
MaxEdgeCalls == 2
MaxEdges == 2
MaxWeight == 2
MaxBuilds == 2
MaxClock == 2
MaxSmartRuns == 2
MaxTiles == 3
MaxBatchSize == 3
MaxSignals == 3
Upserts == 1..NumUpserts
WorkflowIds == {"wf-1", "wf-2"}
Scenarios == {"ingest", " Ingest ", "cluster"}
PipelineVersions == {"1", " 1", "999"}

NULL == "NULL"

\* a size_bytes that is None (the column is nullable)
NoSize == -1

\* ensure_dataset arguments: a first and a second name, the first name again
\* with another CRS and with none, and a company that does not exist
DatasetInputs ==
    {<<"co1", "n1", "crs1">>, <<"co1", "n1", "crs2">>, <<"co1", "n2", "crs1">>,
     <<"co1", "n1", NULL>>, <<"co2", "n1", "crs1">>}

(***************************************************************************)
(* Program constants.                                                      *)
(***************************************************************************)
DEFAULT_SCHEMA_VERSION == "1.1.0"
ProcessMaxAttempts == 2
PollLimit == 10
S3Bucket == "bucket"

RawKinds == {"raw.point_cloud", "raw.trajectory"}
Orchestrators == {"full_pipeline", "new_architecture"}
ManifestSrs == {NULL, "srs1", "srs2"}
UploadKinds == RawKinds \cup {"raw.control_point"}
ManifestKind == "derived.ingest_manifest"
AnchorsKind == "derived.registration_anchors"
DerivedKinds == {ManifestKind, AnchorsKind}
\* calls of upload_derived_bytes: <<company, kind, etag>>
UploadInputs ==
    { <<"co1", AnchorsKind, "e1">>, <<"co1", ManifestKind, "e2">> }
\* calls of upsert_derived_file: <<kind, etag, status>>
UpsertInputs ==
    { <<AnchorsKind, "e1", "AVAILABLE">>, <<ManifestKind, "e1", "READY">> }

VARIABLES
    \* ---- catalog tables used by the ingest-run state machine ----
    scans,        \* core.scans: scan id -> [company_id]
    runs,         \* core.ingest_runs: sequence indexed by the autoincrement id
    artifacts,    \* core.artifacts: sequence indexed by the primary key
    objects,      \* object store: set of keys holding a manifest object
    \* ---- processes ----
    worker,       \* ingest_worker.main loops
    flow,         \* IngestWorkflow steps 7-8: create_ingest_run, process_ingest_run
    \* ---- observations ----
    claimRes,     \* result of claim_ingest_run per worker and run
    claimFirst,   \* status of the run when claim_ingest_run was first called on it
    executed,     \* who has executed the ingest body of a run
    \* ---- catalog tables and transactions of the dataset operations ----
    datasets,         \* core.datasets: committed rows, the id is the index
    dataset_versions, \* core.dataset_versions: committed rows, the id is the index
    tx,               \* open repository transactions (Repo.session scopes)
    \* ---- StartIngestUseCase and its ports ----
    uc,           \* executions of StartIngestUseCase.execute
    kv,           \* KeyDbStatusStore: workflow id -> status of ingest:status:<id>
    engine,       \* workflow engine behind TemporalAdapter: workflow id -> execution
    \* ---- the ingest.start queue and its consumer ----
    msgs,         \* messages of the queue: body, delivery state, handler outcome
    \* ---- the manifest reconciler ----
    recon,        \* the reconcile_pending_ingest_manifests activity
    \* ---- callers of the artifact service ----
    ups,          \* calls of Repo.upsert_derived_artifact inside their session
    fpr,          \* calls of Repo._fingerprint_raw_inputs: the list given, the digest
    \* ---- scans created through Repo.create_scan ----
    scan_rows,    \* core.scans rows with their dataset and dataset version
    scan_call,    \* the last create_scan call: its arguments and how it ended
    \* ---- the pipeline orchestrators ----
    pipe,         \* one run of each orchestrator workflow: stage and ingest results
    \* ---- the registration graph ----
    scan_edges,   \* core.scan_edges: the committed rows
    edge_calls,   \* the add_scan_edges calls made so far: the list given, how it ended
    \* ---- the ingest manifest builder ----
    clock,        \* the wall clock read by datetime.now
    built,        \* the build_ingest_manifest calls made so far: arguments and result
    \* ---- the remaining workflows and the CRS normalizer ----
    wf            \* one record per workflow run or call, by name

ingestVars == <<scans, runs, artifacts, objects, worker, flow, claimRes, claimFirst, executed>>

catalogVars == <<datasets, dataset_versions, tx>>

useCaseVars == <<uc, kv, engine>>

consumerVars == <<msgs>>

reconVars == <<recon>>

serviceVars == <<ups, fpr, scan_rows, scan_call, pipe, scan_edges, edge_calls, clock, built, wf>>

\* what the actions of one specification leave alone
notIngestVars == <<catalogVars, useCaseVars, consumerVars, reconVars, serviceVars>>

notCatalogVars == <<ingestVars, useCaseVars, consumerVars, reconVars, serviceVars>>

notUseCaseVars == <<ingestVars, catalogVars, consumerVars, reconVars, serviceVars>>

vars == <<ingestVars, catalogVars, useCaseVars, consumerVars, reconVars, serviceVars>>

(***************************************************************************)
(* Helpers on sequences.                                                   *)
(***************************************************************************)
Range(s) == {s[i] : i \in DOMAIN s}

SetMax(S) == CHOOSE x \in S : \A y \in S : y <= x

SetMin(S) == CHOOSE x \in S : \A y \in S : x <= y

RECURSIVE SetToAscSeq(_)
SetToAscSeq(S) ==
    IF S = {} THEN <<>>
    ELSE LET m == SetMin(S) IN <<m>> \o SetToAscSeq(S \ {m})

(***************************************************************************)
(* Repo.list_raw_artifacts: rows of the scan with schema_version IS NULL   *)
(* and status AVAILABLE, as a list (rows in primary-key order).            *)
(***************************************************************************)
list_raw_artifacts(scan_id) ==
    SetToAscSeq({i \in DOMAIN artifacts :
                    /\ artifacts[i].scan_id = scan_id
                    /\ artifacts[i].schema_version = NULL
                    /\ artifacts[i].status = "AVAILABLE"})

(***************************************************************************)
(* Repo._fingerprint_raw_inputs: project (kind, bucket, key, etag,         *)
(* size_bytes), stable-sort by (kind, bucket, key), serialise, SHA-256.    *)
(* The digest is represented by the serialised payload it is taken of.     *)
(***************************************************************************)
KindRank(k) ==
    CASE k = "raw.control_point" -> 1
      [] k = "raw.point_cloud" -> 2
      [] k = "raw.trajectory" -> 3
      [] OTHER -> 4

\* the key layout gives one key per kind, so (kind, bucket, key) orders as kind
SortKeyLeq(a, b) == KindRank(a.kind) <= KindRank(b.kind)

FingerprintItem(a) ==
    [kind |-> a.kind, bucket |-> a.s3_bucket, key |-> a.s3_key,
     etag |-> a.etag, size_bytes |-> a.size_bytes]

RECURSIVE InsertSorted(_, _)
InsertSorted(sorted, x) ==
    \* stable: x goes after every element that is <= x
    IF sorted = <<>> THEN <<x>>
    ELSE IF SortKeyLeq(Head(sorted), x)
         THEN <<Head(sorted)>> \o InsertSorted(Tail(sorted), x)
         ELSE <<x>> \o sorted

RECURSIVE StableSort(_)
StableSort(items) ==
    IF items = <<>> THEN <<>>
    ELSE InsertSorted(StableSort(SubSeq(items, 1, Len(items) - 1)), items[Len(items)])

fingerprint_raw_inputs(ids) ==
    StableSort([i \in DOMAIN ids |-> FingerprintItem(artifacts[ids[i]])])

compute_fingerprint(scan_id) == fingerprint_raw_inputs(list_raw_artifacts(scan_id))

(***************************************************************************)
(* Repo.find_ingest_run: newest row with the same company, scan, schema    *)
(* version and input fingerprint, or 0 when there is none.                 *)
(***************************************************************************)
FindMatches(run, company_id, scan_id, schema_version, input_fingerprint) ==
    /\ run.company_id = company_id
    /\ run.scan_id = scan_id
    /\ run.schema_version = schema_version
    /\ run.input_fingerprint = input_fingerprint

find_ingest_run(company_id, scan_id, schema_version, input_fingerprint) ==
    LET hits == {i \in DOMAIN runs :
                    FindMatches(runs[i], company_id, scan_id, schema_version, input_fingerprint)}
    IN IF hits = {} THEN 0 ELSE SetMax(hits)

\* the force test inverted
ReturnsExisting_ForceInverted(existing, force) == existing # 0 /\ force

\* create_ingest_run (activity): `if existing and not force: return existing.id`
ReturnsExisting(existing, force) == existing # 0 /\ ~force

(***************************************************************************)
(* Repo.create_ingest_run: INSERT with status QUEUED, error {}, no         *)
(* finished_at; the id is the next autoincrement value.  raw_ids is an     *)
(* observation (the raw rows the fingerprint was taken of), not a column.  *)
(***************************************************************************)
NewIngestRun(company_id, scan_id, schema_version, input_fingerprint, raw_ids) ==
    [company_id |-> company_id, scan_id |-> scan_id,
     schema_version |-> schema_version, input_fingerprint |-> input_fingerprint,
     status |-> "QUEUED", finished_at |-> FALSE, raw_ids |-> raw_ids]

(***************************************************************************)
(* Repo.set_ingest_run_status: unconditional write of status, and of       *)
(* finished_at when set_finished_at is given.                              *)
(***************************************************************************)
set_ingest_run_status(rs, run_id, status, set_finished_at) ==
    [rs EXCEPT ![run_id].status = status,
               ![run_id].finished_at = IF set_finished_at THEN TRUE ELSE @]

(***************************************************************************)
(* Repo.claim_ingest_run: UPDATE ... WHERE id = run_id AND status =        *)
(* 'QUEUED' SET status = 'RUNNING'; returns whether a row was updated.     *)
(***************************************************************************)
\* the UPDATE without the status condition: not a compare-and-swap
ClaimMatches_NoStatusCheck(run) == run.status \in {"QUEUED", "RUNNING", "SUCCEEDED", "FAILED"}

ClaimMatches(run) == run.status = "QUEUED"

claim_ingest_run(rs, run_id) ==
    IF ClaimMatches(rs[run_id])
    THEN [rows |-> [rs EXCEPT ![run_id].status = "RUNNING"], ok |-> TRUE]
    ELSE [rows |-> rs, ok |-> FALSE]

(***************************************************************************)
(* Repo.list_queued_ingest_runs with the worker's default arguments (no    *)
(* schema/company filter): QUEUED rows by ascending id, at most limit.     *)
(***************************************************************************)
list_queued_ingest_runs(limit) ==
    LET q == SetToAscSeq({i \in DOMAIN runs : runs[i].status = "QUEUED"})
    IN IF Len(q) <= limit THEN q ELSE SubSeq(q, 1, limit)

(***************************************************************************)
(* Repo.find_derived_artifact: first row for (scan, kind, schema_version), *)
(* or 0.                                                                   *)
(***************************************************************************)
find_derived_artifact(scan_id, kind, schema_version) ==
    LET hits == {i \in DOMAIN artifacts :
                    /\ artifacts[i].scan_id = scan_id
                    /\ artifacts[i].kind = kind
                    /\ artifacts[i].schema_version = schema_version}
    IN IF hits = {} THEN 0 ELSE SetMin(hits)

\* artifact_service key layout: one key per (scan, kind)
RawKey(scan_id, kind) == <<scan_id, "raw", kind>>

derived_manifest_key(scan_id, schema_version) == <<scan_id, "derived", schema_version>>

NewArtifact(company_id, scan_id, kind, schema_version, key, etag, size_bytes, status) ==
    [company_id |-> company_id, scan_id |-> scan_id, kind |-> kind,
     schema_version |-> schema_version, s3_bucket |-> S3Bucket, s3_key |-> key,
     etag |-> etag, size_bytes |-> size_bytes, status |-> status]

(***************************************************************************)
(* Repo.upsert_derived_artifact: overwrite the first row of the triple if  *)
(* there is one, else insert.                                              *)
(***************************************************************************)
upsert_derived_artifact(arts, existing, company_id, scan_id, kind, schema_version, key, etag, size_bytes, status) ==
    IF existing # 0
    THEN [arts EXCEPT ![existing].s3_bucket = S3Bucket,
                      ![existing].s3_key = key,
                      ![existing].etag = etag,
                      ![existing].size_bytes = size_bytes,
                      ![existing].status = status]
    ELSE Append(arts, NewArtifact(company_id, scan_id, kind, schema_version, key, etag, size_bytes, status))


(***************************************************************************)
(*                     SpecIngest: the ingest-run FSM                      *)
(***************************************************************************)
IdleWorker == [pc |-> "poll", list |-> <<>>, idx |-> 1]

\* a workflow between activities holds only what the workflow code keeps:
\* its parameters (force among them), the run id and the attempt number
IdleFlow ==
    [pc |-> "init", company_id |-> NULL, scan_id |-> NULL, schema_version |-> NULL,
     force |-> FALSE, fp |-> <<>>, raw_ids |-> {}, prior |-> {}, inserted |-> FALSE,
     run_id |-> 0, attempt |-> 0, manifest |-> 0]

Txns == 1..NumTxns

Execs == 1..NumExecs

\* one call of StartIngestUseCase.execute: its position, its command, how
\* its start_workflow call ended, and the port calls it has made so far
IdleExec ==
    [pc |-> "idle", workflow_id |-> NULL, known |-> FALSE, push |-> NULL,
     log |-> <<>>, start |-> "none"]

\* no workflow execution under this id
NoExecution == [state |-> "none", executions |-> 0]

\* a message slot of the ingest.start queue; execution m of the use case
\* serves the deliveries of message m
Msgs == Execs

\* nothing published in this slot yet
NoMessage ==
    [state |-> "none", body |-> NULL, handler |-> NULL, parsed |-> FALSE,
     deliveries |-> 0]

\* the locals of _reconcile: the rows listed, the index of the row under
\* examination, what head_object returned for it, and the counters
IdleRecon ==
    [pc |-> "idle", pending |-> <<>>, idx |-> 1, head |-> NULL,
     approved |-> 0, failed |-> 0]

\* a call of upsert_derived_artifact that has not been made
IdleUpsert ==
    [pc |-> "idle", scan_id |-> NULL, kind |-> NULL, etag |-> NULL, status |-> NULL,
     existing |-> 0, after |-> {}]

\* the locals of one repository call inside its session scope
IdleTx ==
    [op |-> "none", pc |-> "idle", company_id |-> NULL, name |-> NULL, crs_id |-> NULL,
     dataset_id |-> 0, target |-> 0, lock |-> 0, active |-> 0, new_version |-> 0,
     seen_version |-> 0, waited |-> FALSE, result |-> 0]

\* self._stage, self._dataset_version_id (0 for None), the ingest results
\* taken so far and the SRS of the first manifest that has one
IdlePipeline == [pc |-> "init", dataset_version_id |-> 0, results |-> <<>>, srs |-> NULL]

NoScanCall == [company_id |-> NULL, dataset_version_id |-> 0, result |-> "none"]

\* SmartIngestWorkflow before run(): the stage, the parameters that reach the
\* logic record, the locals of run() and the number of runs started so far
IdleSmart ==
    [pc |-> "Initializing", crs_id |-> NULL, override_crs_id |-> NULL, dataset_id |-> 0,
     scan_count |-> 0, logic |-> NULL, runs |-> 0]

\* no request is being normalized
IdleNorm == [pc |-> "idle", crs |-> NULL, result |-> NULL]

\* one new-pipeline workflow id: where StartNewPipelineUseCase.execute and
\* NewArchitectureWorkflow.run are, the attempt of the running status
\* activity, the status held by KeyDB, the statuses the run has written
IdleNewPipeline ==
    [uc |-> "idle", run |-> "none", attempt |-> 0, kv |-> "none", written |-> {},
     stage_raised |-> FALSE, publish_ok |-> FALSE, notify_error |-> FALSE]

\* ClusterPipelineParams as its callers build it (tiles, tile_index and
\* cropped_tiles at their defaults) and the position of the run
IdleCluster ==
    [pc |-> "idle", execution |-> 0, batch_size |-> 0,
     tiles |-> <<>>, tile_index |-> 0, cropped_tiles |-> <<>>,
     local_tiles |-> <<>>, local_cropped |-> <<>>, pos |-> 0, end_index |-> 0,
     processed |-> <<>>, merge_args |-> NULL]

\* MlsPipelineWorkflow.__init__, no signal received, no coroutine waiting in
\* start_child_workflow
IdleMls ==
    [pc |-> "init", dataset_version_id |-> NULL,
     registration_started |-> FALSE, registration_workflow_id |-> NULL,
     signals |-> 0, starting |-> <<>>, solver_starts |-> <<>>]

\* no workflow has started and no call has been made
IdleWf == [smart |-> IdleSmart, norm |-> IdleNorm, np |-> IdleNewPipeline,
           cluster |-> IdleCluster, mls |-> IdleMls]

\* nothing is in flight in the artifact service
ServiceInit ==
    /\ ups = [u \in Upserts |-> IdleUpsert]
    /\ fpr = {}
    /\ scan_rows = <<>>
    /\ scan_call = NoScanCall
    /\ pipe = [k \in Orchestrators |-> IdlePipeline]
    /\ scan_edges = {}
    /\ edge_calls = <<>>
    /\ clock = 0
    /\ built = <<>>
    /\ wf = IdleWf

\* a catalog holding one scan of company co1 and nothing else
InitIngest ==
    /\ scans = [s \in ScanIds |-> [company_id |-> "co1"]]
    /\ runs = <<>>
    /\ artifacts = <<>>
    /\ objects = {}
    /\ worker = [w \in Workers |-> IdleWorker]
    /\ flow = [f \in Flows |-> IdleFlow]
    /\ claimRes = [w \in Workers |-> [r \in RunIds |-> "none"]]
    /\ claimFirst = [r \in RunIds |-> "none"]
    /\ executed = [r \in RunIds |-> {}]
    /\ datasets = <<>>
    /\ dataset_versions = <<>>
    /\ tx = [t \in Txns |-> IdleTx]
    /\ uc = [e \in Execs |-> IdleExec]
    /\ kv = [w \in WorkflowIds |-> "none"]
    /\ engine = [w \in WorkflowIds |-> NoExecution]
    /\ msgs = [m \in Msgs |-> NoMessage]
    /\ recon = IdleRecon
    /\ ServiceInit

\* the check for any raw artifact taken for the check for the point cloud
HasCloud_AnyRaw(ids) == ids # <<>>

HasCloud(ids) == \E i \in Range(ids) : artifacts[i].kind = "raw.point_cloud"

(***************************************************************************)
(* Repo.register_raw_artifact (called by upload_raw_artifact): insert a    *)
(* raw row, schema_version NULL, status AVAILABLE.                         *)
(***************************************************************************)
RegisterRawArtifact(company_id, scan_id, kind, etag) ==
    /\ Cardinality({i \in DOMAIN artifacts : artifacts[i].schema_version = NULL}) < MaxRawArtifacts
    /\ scans[scan_id].company_id = company_id
    /\ artifacts' = Append(artifacts,
           NewArtifact(company_id, scan_id, kind, NULL, RawKey(scan_id, kind), etag, 1, "AVAILABLE"))
    /\ UNCHANGED <<scans, runs, objects, worker, flow, claimRes, claimFirst, executed, notIngestVars>>

(***************************************************************************)
(* ingest_worker.main                                                      *)
(***************************************************************************)
\* runs = repo.list_queued_ingest_runs(...); an empty list sleeps and polls again
WorkerPoll(w) ==
    /\ worker[w].pc = "poll"
    /\ list_queued_ingest_runs(PollLimit) # <<>>
    /\ worker' = [worker EXCEPT ![w] = [pc |-> "claim", list |-> list_queued_ingest_runs(PollLimit), idx |-> 1]]
    /\ UNCHANGED <<scans, runs, artifacts, objects, flow, claimRes, claimFirst, executed, notIngestVars>>

\* the position of the for loop after the body of one row
WorkerAdvance(wr) ==
    IF wr.idx >= Len(wr.list) THEN IdleWorker
    ELSE [wr EXCEPT !.pc = "claim", !.idx = wr.idx + 1]

\* if not repo.claim_ingest_run(r.id): continue
WorkerClaim(w) ==
    /\ worker[w].pc = "claim"
    /\ LET r == worker[w].list[worker[w].idx]
           res == claim_ingest_run(runs, r)
       IN /\ runs' = res.rows
          /\ claimRes' = [claimRes EXCEPT ![w][r] = IF res.ok THEN "true" ELSE "false"]
          /\ claimFirst' = [claimFirst EXCEPT ![r] = IF @ = "none" THEN runs[r].status ELSE @]
          /\ worker' = [worker EXCEPT ![w] =
                IF res.ok THEN [@ EXCEPT !.pc = "set_running"] ELSE WorkerAdvance(@)]
    /\ UNCHANGED <<scans, artifacts, objects, flow, executed, notIngestVars>>

\* repo.set_ingest_run_status(run_id, status="RUNNING")
WorkerSetRunning(w) ==
    /\ worker[w].pc = "set_running"
    /\ runs' = set_ingest_run_status(runs, worker[w].list[worker[w].idx], "RUNNING", FALSE)
    /\ worker' = [worker EXCEPT ![w].pc = "process"]
    /\ UNCHANGED <<scans, artifacts, objects, flow, claimRes, claimFirst, executed, notIngestVars>>

\* process_run: get_ingest_run, validate_inputs (raw.point_cloud must exist)
WorkerProcessRun(w) ==
    /\ worker[w].pc = "process"
    /\ LET r == worker[w].list[worker[w].idx]
       IN /\ executed' = [executed EXCEPT ![r] = @ \cup {<<"worker", w>>}]
          /\ worker' = [worker EXCEPT ![w].pc =
                IF HasCloud(list_raw_artifacts(runs[r].scan_id)) THEN "succeed" ELSE "fail"]
    /\ UNCHANGED <<scans, runs, artifacts, objects, flow, claimRes, claimFirst, notIngestVars>>

\* an except clause that logs the failure and leaves the status alone
WorkerFail_StatusKept(w) ==
    /\ worker[w].pc = "fail"
    /\ worker' = [worker EXCEPT ![w] = WorkerAdvance(@)]
    /\ UNCHANGED <<scans, runs, artifacts, objects, flow, claimRes, claimFirst, executed, notIngestVars>>

\* except: set_ingest_run_status(FAILED, error, set_finished_at=True); continue
WorkerFail(w) ==
    /\ worker[w].pc = "fail"
    /\ runs' = set_ingest_run_status(runs, worker[w].list[worker[w].idx], "FAILED", TRUE)
    /\ worker' = [worker EXCEPT ![w] = WorkerAdvance(@)]
    /\ UNCHANGED <<scans, artifacts, objects, flow, claimRes, claimFirst, executed, notIngestVars>>

\* set_ingest_run_status(SUCCEEDED, error={}, set_finished_at=True)
WorkerSucceed(w) ==
    /\ worker[w].pc = "succeed"
    /\ runs' = set_ingest_run_status(runs, worker[w].list[worker[w].idx], "SUCCEEDED", TRUE)
    /\ worker' = [worker EXCEPT ![w] = WorkerAdvance(@)]
    /\ UNCHANGED <<scans, artifacts, objects, flow, claimRes, claimFirst, executed, notIngestVars>>


(***************************************************************************)
(* create_ingest_run (activity), IngestWorkflow step 7                     *)
(***************************************************************************)
\* scan = repo.get_scan(scan_id); company check; fp = repo.compute_fingerprint
CreateFingerprint(f, company_id, scan_id, force) ==
    /\ flow[f].pc = "init"
    /\ LET ids == list_raw_artifacts(scan_id)
           own == scans[scan_id].company_id = company_id
       IN flow' = [flow EXCEPT ![f] =
            [@ EXCEPT !.pc = IF own THEN "find" ELSE "rejected",
                      !.company_id = company_id,
                      !.scan_id = scan_id,
                      !.schema_version = DEFAULT_SCHEMA_VERSION,
                      !.force = force,
                      !.fp = IF own THEN compute_fingerprint(scan_id) ELSE <<>>,
                      !.raw_ids = IF own THEN Range(ids) ELSE {},
                      !.prior = IF own
                                THEN {i \in DOMAIN runs :
                                        /\ runs[i].company_id = company_id
                                        /\ runs[i].scan_id = scan_id
                                        /\ runs[i].schema_version = DEFAULT_SCHEMA_VERSION
                                        /\ runs[i].raw_ids = Range(ids)}
                                ELSE {}]]
    /\ UNCHANGED <<scans, runs, artifacts, objects, worker, claimRes, claimFirst, executed, notIngestVars>>

\* existing = repo.find_ingest_run(...); if existing and not force: return existing.id
CreateFind(f) ==
    /\ flow[f].pc = "find"
    /\ LET existing == find_ingest_run(flow[f].company_id, flow[f].scan_id,
                                       flow[f].schema_version, flow[f].fp)
       IN flow' = [flow EXCEPT ![f] =
            IF ReturnsExisting(existing, flow[f].force)
            THEN [@ EXCEPT !.pc = "proc_start", !.run_id = existing]
            ELSE [@ EXCEPT !.pc = "insert"]]
    /\ UNCHANGED <<scans, runs, artifacts, objects, worker, claimRes, claimFirst, executed, notIngestVars>>

\* run_id = repo.create_ingest_run(..., status="QUEUED")
CreateInsert(f) ==
    /\ flow[f].pc = "insert"
    /\ runs' = Append(runs, NewIngestRun(flow[f].company_id, flow[f].scan_id,
                                         flow[f].schema_version, flow[f].fp, flow[f].raw_ids))
    /\ flow' = [flow EXCEPT ![f] = [@ EXCEPT !.pc = "proc_start", !.run_id = Len(runs) + 1,
                                              !.inserted = TRUE]]
    /\ UNCHANGED <<scans, artifacts, objects, worker, claimRes, claimFirst, executed, notIngestVars>>

(***************************************************************************)
(* process_ingest_run (activity), IngestWorkflow step 8, with its retry    *)
(* policy (maximum_attempts = 2)                                           *)
(***************************************************************************)
\* run = repo.get_ingest_run(run_id); repo.set_ingest_run_status(RUNNING)
ProcStart(f) ==
    /\ flow[f].pc = "proc_start"
    /\ runs' = set_ingest_run_status(runs, flow[f].run_id, "RUNNING", FALSE)
    /\ flow' = [flow EXCEPT ![f] = [IdleFlow EXCEPT !.pc = "proc_body", !.run_id = flow[f].run_id,
                                                     !.attempt = flow[f].attempt,
                                                     !.force = flow[f].force]]
    /\ UNCHANGED <<scans, artifacts, objects, worker, claimRes, claimFirst, executed, notIngestVars>>

\* get_scan, list_raw_artifacts, the two input checks, build_ingest_manifest
ProcValidate(f) ==
    /\ flow[f].pc = "proc_body"
    /\ LET r == flow[f].run_id
           raw_arts == list_raw_artifacts(runs[r].scan_id)
       IN /\ executed' = [executed EXCEPT ![r] = @ \cup {<<"activity", f>>}]
          /\ flow' = [flow EXCEPT ![f].pc =
                IF raw_arts = <<>> \/ ~HasCloud(raw_arts) THEN "proc_fail" ELSE "proc_find"]
    /\ UNCHANGED <<scans, runs, artifacts, objects, worker, claimRes, claimFirst, notIngestVars>>

\* existing_manifest = repo.find_derived_artifact(...) and the branch on it
ProcFindManifest(f) ==
    /\ flow[f].pc = "proc_find"
    /\ LET r == flow[f].run_id
           m == find_derived_artifact(runs[r].scan_id, ManifestKind, runs[r].schema_version)
       IN flow' = [flow EXCEPT ![f] =
            [@ EXCEPT !.manifest = m,
                      !.pc = IF m # 0 /\ artifacts[m].status = "AVAILABLE" THEN "proc_short"
                             ELSE IF m = 0 THEN "proc_register"
                             ELSE "proc_put"]]
    /\ UNCHANGED <<scans, runs, artifacts, objects, worker, claimRes, claimFirst, executed, notIngestVars>>

\* an AVAILABLE manifest exists: stamp SUCCEEDED and return
ProcShortSucceed(f) ==
    /\ flow[f].pc = "proc_short"
    /\ runs' = set_ingest_run_status(runs, flow[f].run_id, "SUCCEEDED", TRUE)
    /\ flow' = [flow EXCEPT ![f] = [IdleFlow EXCEPT !.pc = "done", !.run_id = flow[f].run_id]]
    /\ UNCHANGED <<scans, artifacts, objects, worker, claimRes, claimFirst, executed, notIngestVars>>

\* repo.register_artifact(..., etag=None, size_bytes=None, status="PENDING")
ProcRegister(f) ==
    /\ flow[f].pc = "proc_register"
    /\ LET r == flow[f].run_id
       IN artifacts' = Append(artifacts,
              NewArtifact(runs[r].company_id, runs[r].scan_id, ManifestKind, runs[r].schema_version,
                          derived_manifest_key(runs[r].scan_id, runs[r].schema_version),
                          NULL, NoSize, "PENDING"))
    /\ flow' = [flow EXCEPT ![f].pc = "proc_put"]
    /\ UNCHANGED <<scans, runs, objects, worker, claimRes, claimFirst, executed, notIngestVars>>

\* put_bytes whose failure is not raised
ProcPut_FailureIgnored(f, ok) ==
    /\ flow[f].pc = "proc_put"
    /\ LET r == flow[f].run_id
       IN objects' = IF ok
                     THEN objects \cup {derived_manifest_key(runs[r].scan_id, runs[r].schema_version)}
                     ELSE objects
    /\ flow' = [flow EXCEPT ![f].pc = "proc_upsert"]
    /\ UNCHANGED <<scans, runs, artifacts, worker, claimRes, claimFirst, executed, notIngestVars>>

\* etag, size = s3.put_bytes(...): stores the object or raises
ProcPut(f, ok) ==
    /\ flow[f].pc = "proc_put"
    /\ LET r == flow[f].run_id
       IN objects' = IF ok
                     THEN objects \cup {derived_manifest_key(runs[r].scan_id, runs[r].schema_version)}
                     ELSE objects
    /\ flow' = [flow EXCEPT ![f].pc = IF ok THEN "proc_upsert" ELSE "proc_fail"]
    /\ UNCHANGED <<scans, runs, artifacts, worker, claimRes, claimFirst, executed, notIngestVars>>

\* the etag of the manifest body built for a run
ManifestEtag(run_id) == "m" \o ToString(run_id)

\* repo.upsert_derived_artifact(..., etag, size, status="AVAILABLE")
ProcUpsert(f) ==
    /\ flow[f].pc = "proc_upsert"
    /\ LET r == flow[f].run_id
           existing == find_derived_artifact(runs[r].scan_id, ManifestKind, runs[r].schema_version)
       IN artifacts' = upsert_derived_artifact(artifacts, existing, runs[r].company_id,
                          runs[r].scan_id, ManifestKind, runs[r].schema_version,
                          derived_manifest_key(runs[r].scan_id, runs[r].schema_version),
                          ManifestEtag(r), 1, "AVAILABLE")
    /\ flow' = [flow EXCEPT ![f].pc = "proc_succeed"]
    /\ UNCHANGED <<scans, runs, objects, worker, claimRes, claimFirst, executed, notIngestVars>>

\* repo.set_ingest_run_status(SUCCEEDED, set_finished_at=True), the last
\* statement of the try block: it writes the status, or it raises (database
\* error) and the except clause takes over
ProcSucceed(f, ok) ==
    /\ flow[f].pc = "proc_succeed"
    /\ runs' = IF ok THEN set_ingest_run_status(runs, flow[f].run_id, "SUCCEEDED", TRUE)
               ELSE runs
    /\ flow' = [flow EXCEPT ![f] =
            IF ok THEN [IdleFlow EXCEPT !.pc = "done", !.run_id = flow[f].run_id]
            ELSE [@ EXCEPT !.pc = "proc_fail"]]
    /\ UNCHANGED <<scans, artifacts, objects, worker, claimRes, claimFirst, executed, notIngestVars>>

\* except: set_ingest_run_status(FAILED, error, set_finished_at=True); raise.
\* The engine runs the activity again until maximum_attempts is used up.
ProcFail(f) ==
    /\ flow[f].pc = "proc_fail"
    /\ runs' = set_ingest_run_status(runs, flow[f].run_id, "FAILED", TRUE)
    /\ flow' = [flow EXCEPT ![f] =
            [IdleFlow EXCEPT !.run_id = flow[f].run_id,
                             !.force = flow[f].force,
                             !.attempt = flow[f].attempt + 1,
                             !.pc = IF flow[f].attempt + 1 < ProcessMaxAttempts
                                    THEN "proc_start" ELSE "failed"]]
    /\ UNCHANGED <<scans, artifacts, objects, worker, claimRes, claimFirst, executed, notIngestVars>>

RegisterStep ==
    \E c \in Companies, s \in ScanIds, k \in RawKinds, e \in Etags : RegisterRawArtifact(c, s, k, e)

WorkerStep(w) ==
    \/ WorkerPoll(w)
    \/ WorkerClaim(w)
    \/ WorkerSetRunning(w)
    \/ WorkerProcessRun(w)
    \/ WorkerFail(w)
    \/ WorkerSucceed(w)

\* the create_ingest_run activity
CreateStep(f) ==
    \/ \E c \in Companies, s \in ScanIds, b \in BOOLEAN : CreateFingerprint(f, c, s, b)
    \/ CreateFind(f)
    \/ CreateInsert(f)

\* the process_ingest_run activity
ProcStep(f) ==
    \/ ProcStart(f)
    \/ ProcValidate(f)
    \/ ProcFindManifest(f)
    \/ ProcShortSucceed(f)
    \/ ProcRegister(f)
    \/ \E ok \in BOOLEAN : ProcPut(f, ok)
    \/ ProcUpsert(f)
    \/ \E ok \in BOOLEAN : ProcSucceed(f, ok)
    \/ ProcFail(f)

\* the polling workers next to one workflow execution
NextIngest ==
    \/ RegisterStep
    \/ \E w \in Workers : WorkerStep(w)
    \/ CreateStep(1)
    \/ ProcStep(1)

\* concurrent create_ingest_run calls
NextDedup ==
    \/ RegisterStep
    \/ \E f \in Flows : CreateStep(f)

SpecIngest == InitIngest /\ [][NextIngest]_vars

\* uploads by the owner of the scan, one etag per kind: what the progress of
\* a claimed run depends on is which kinds are present
RegisterOwnStep ==
    \E s \in ScanIds, k \in RawKinds : RegisterRawArtifact(scans[s].company_id, s, k, "e1")

NextIngestFair ==
    \/ RegisterOwnStep
    \/ \E w \in Workers : WorkerStep(w)
    \/ CreateStep(1)
    \/ ProcStep(1)

\* a worker process that is running takes its next step, and the engine runs
\* an activity it has scheduled (retries included)
SpecIngestFair ==
    /\ InitIngest
    /\ [][NextIngestFair]_vars
    /\ \A w \in Workers : WF_vars(WorkerStep(w))
    /\ WF_vars(ProcStep(1))

SpecDedup == InitIngest /\ [][NextDedup]_vars

\* IngestWorkflow executions for one scan, each running create_ingest_run and
\* then process_ingest_run
NextReprocess ==
    \/ RegisterOwnStep
    \/ \E f \in Flows : CreateStep(f)
    \/ \E f \in Flows : ProcStep(f)

SpecReprocess == InitIngest /\ [][NextReprocess]_vars

(***************************************************************************)
(*        reconcile_pending_ingest_manifests                               *)
(*  (ingest_activities.py, S3Store.head_object)                            *)
(***************************************************************************)
ReconcileLimit == 100

\* what the store reports as the ETag and ContentLength of a manifest object
StoredEtag == "etag"

StoredSize == 1

\* Repo.list_pending_artifacts(kind, limit): the ids of the PENDING rows of
\* the kind, at most `limit` of them
list_pending_artifacts(kind, limit) ==
    LET ids == SetToAscSeq({i \in DOMAIN artifacts :
                    artifacts[i].kind = kind /\ artifacts[i].status = "PENDING"})
    IN SubSeq(ids, 1, IF Len(ids) < limit THEN Len(ids) ELSE limit)

\* Repo.update_artifact_status(artifact_id, status, etag, size_bytes): set
\* the status of the row, and its etag and size when they are given
update_artifact_status(arts, artifact_id, status, etag, size_bytes) ==
    IF etag = NULL
    THEN [arts EXCEPT ![artifact_id].status = status]
    ELSE [arts EXCEPT ![artifact_id].status = status,
                      ![artifact_id].etag = etag,
                      ![artifact_id].size_bytes = size_bytes]

\* S3Store.head_object without the store failing: the object's (etag, size),
\* or (None, None) when the store answers 404 / NoSuchKey / NotFound
head_object(key) ==
    IF key \in objects THEN [etag |-> StoredEtag, size |-> StoredSize]
    ELSE [etag |-> NULL, size |-> NoSize]

\* `if etag and size is not None` taken the wrong way round
Approves_Inverted(head) == ~(head.etag # NULL /\ head.size # NoSize)

\* if etag and size is not None
Approves(head) == head.etag # NULL /\ head.size # NoSize

\* pending = repo.list_pending_artifacts(kind="derived.ingest_manifest", limit)
ReconList ==
    /\ recon.pc = "idle"
    /\ recon' = [IdleRecon EXCEPT !.pc = "head",
                    !.pending = list_pending_artifacts(ManifestKind, ReconcileLimit)]
    /\ UNCHANGED <<ingestVars, catalogVars, useCaseVars, consumerVars, serviceVars>>

\* etag, size = s3.head_object(...): an answer of the store, or a ClientError
\* of another code, which leaves the activity
ReconHead(ok) ==
    /\ recon.pc = "head"
    /\ recon.idx <= Len(recon.pending)
    /\ recon' = IF ok
                THEN [recon EXCEPT !.pc = "update",
                        !.head = head_object(artifacts[recon.pending[recon.idx]].s3_key)]
                ELSE [recon EXCEPT !.pc = "raised"]
    /\ UNCHANGED <<ingestVars, catalogVars, useCaseVars, consumerVars, serviceVars>>

\* repo.update_artifact_status(AVAILABLE, etag, size) or (FAILED)
ReconUpdate ==
    /\ recon.pc = "update"
    /\ LET id == recon.pending[recon.idx]
           yes == Approves(recon.head) IN
        /\ artifacts' = IF yes
                THEN update_artifact_status(artifacts, id, "AVAILABLE",
                                            recon.head.etag, recon.head.size)
                ELSE update_artifact_status(artifacts, id, "FAILED", NULL, NoSize)
        /\ recon' = [recon EXCEPT !.pc = "head", !.idx = @ + 1, !.head = NULL,
                        !.approved = IF yes THEN @ + 1 ELSE @,
                        !.failed = IF yes THEN @ ELSE @ + 1]
    /\ UNCHANGED <<scans, runs, objects, worker, flow, claimRes, claimFirst, executed,
                   catalogVars, useCaseVars, consumerVars, serviceVars>>

\* the loop is over, or the activity has raised: the next run may start
ReconReturn ==
    /\ \/ recon.pc = "head" /\ recon.idx > Len(recon.pending)
       \/ recon.pc = "raised"
    /\ recon' = IdleRecon
    /\ UNCHANGED <<ingestVars, catalogVars, useCaseVars, consumerVars, serviceVars>>

\* the reconciler next to one workflow execution
NextReconcile ==
    \/ RegisterStep
    \/ CreateStep(1)
    \/ ProcStep(1)
    \/ ReconList
    \/ \E ok \in BOOLEAN : ReconHead(ok)
    \/ ReconUpdate
    \/ ReconReturn

SpecReconcile == InitIngest /\ [][NextReconcile]_vars



(***************************************************************************)
(*        SpecDerived: derived artifact rows and their writers             *)
(***************************************************************************)
\* the key a caller of the artifact service passes for a derived object
DerivedKey(scan_id, kind, schema_version) ==
    IF kind = ManifestKind THEN derived_manifest_key(scan_id, schema_version)
    ELSE <<scan_id, kind, schema_version>>

\* the rows of one derived key
DerivedRows(arts, scan_id, kind, schema_version) ==
    {i \in DOMAIN arts :
        /\ arts[i].scan_id = scan_id
        /\ arts[i].kind = kind
        /\ arts[i].schema_version = schema_version}

\* ArtifactService.upload_derived_bytes: put_bytes, then Repo.register_artifact,
\* which checks the scan's company and inserts a row
UploadDerivedBytes(company_id, scan_id, kind, etag) ==
    /\ Cardinality({i \in DOMAIN artifacts :
            artifacts[i].schema_version # NULL /\ artifacts[i].etag \in Etags}) < MaxDerivedUploads
    /\ objects' = objects \cup {DerivedKey(scan_id, kind, DEFAULT_SCHEMA_VERSION)}
    /\ artifacts' = IF scans[scan_id].company_id = company_id
                    THEN Append(artifacts,
                            NewArtifact(company_id, scan_id, kind, DEFAULT_SCHEMA_VERSION,
                                        DerivedKey(scan_id, kind, DEFAULT_SCHEMA_VERSION),
                                        etag, 1, "AVAILABLE"))
                    ELSE artifacts
    /\ UNCHANGED <<scans, runs, worker, flow, claimRes, claimFirst, executed, notIngestVars>>

\* ArtifactService.upsert_derived_file up to the SELECT of
\* Repo.upsert_derived_artifact: the object is stored and the first row of
\* the key, if any, is read
UpsertSelect(u, scan_id, kind, etag, status) ==
    /\ ups[u].pc = "idle"
    /\ objects' = objects \cup {DerivedKey(scan_id, kind, DEFAULT_SCHEMA_VERSION)}
    /\ ups' = [ups EXCEPT ![u] =
            [pc |-> "selected", scan_id |-> scan_id, kind |-> kind, etag |-> etag, status |-> status,
             existing |-> find_derived_artifact(scan_id, kind, DEFAULT_SCHEMA_VERSION),
             after |-> {v \in Upserts : ups[v].pc = "done"}]]
    /\ UNCHANGED <<scans, runs, artifacts, worker, flow, claimRes, claimFirst, executed, fpr,
                   scan_rows, scan_call, pipe, catalogVars, useCaseVars, consumerVars, reconVars,
                   scan_edges, edge_calls, clock, built, wf>>

\* the rest of Repo.upsert_derived_artifact and the commit of its session:
\* the row that was read is overwritten, or a row is inserted
UpsertWrite(u) ==
    /\ ups[u].pc = "selected"
    /\ artifacts' = upsert_derived_artifact(artifacts, ups[u].existing,
                        scans[ups[u].scan_id].company_id, ups[u].scan_id, ups[u].kind,
                        DEFAULT_SCHEMA_VERSION,
                        DerivedKey(ups[u].scan_id, ups[u].kind, DEFAULT_SCHEMA_VERSION),
                        ups[u].etag, 1, ups[u].status)
    /\ ups' = [ups EXCEPT ![u].pc = "done"]
    /\ UNCHANGED <<scans, runs, objects, worker, flow, claimRes, claimFirst, executed, fpr,
                   scan_rows, scan_call, pipe, catalogVars, useCaseVars, consumerVars, reconVars,
                   scan_edges, edge_calls, clock, built, wf>>

\* one workflow and the callers of the artifact service on one catalog
NextDerived ==
    \/ RegisterOwnStep
    \/ CreateStep(1)
    \/ ProcStep(1)
    \/ \E s \in ScanIds, i \in UploadInputs : UploadDerivedBytes(i[1], s, i[2], i[3])
    \/ \E u \in Upserts, s \in ScanIds, i \in UpsertInputs : UpsertSelect(u, s, i[1], i[2], i[3])
    \/ \E u \in Upserts : UpsertWrite(u)

SpecDerived == InitIngest /\ [][NextDerived]_vars

(***************************************************************************)
(*        SpecRaw: raw artifact rows and the fingerprint over them         *)
(***************************************************************************)
\* the raw rows of a scan, whatever their status
RawRows(scan_id, kind) ==
    {i \in DOMAIN artifacts :
        /\ artifacts[i].scan_id = scan_id
        /\ artifacts[i].schema_version = NULL
        /\ artifacts[i].kind = kind}

\* ArtifactService.upload_raw_artifact: the scan must belong to the company
\* and to the dataset version named by the caller (dv_ok), the kind must be
\* one of the three raw kinds; then put_object and Repo.register_raw_artifact
UploadRawArtifact(company_id, dv_ok, scan_id, kind, etag) ==
    /\ Cardinality({i \in DOMAIN artifacts : artifacts[i].schema_version = NULL}) < MaxRawUploads
    /\ IF scans[scan_id].company_id = company_id /\ dv_ok /\ kind \in UploadKinds
       THEN /\ objects' = objects \cup {RawKey(scan_id, kind)}
            /\ artifacts' = Append(artifacts,
                   NewArtifact(company_id, scan_id, kind, NULL, RawKey(scan_id, kind),
                               etag, 1, "AVAILABLE"))
       ELSE UNCHANGED <<objects, artifacts>>
    /\ UNCHANGED <<scans, runs, worker, flow, claimRes, claimFirst, executed, notIngestVars>>

\* the orders in which a SELECT without ORDER BY may return a set of rows
Orders(S) ==
    {o \in [1..Cardinality(S) -> S] : \A i, j \in 1..Cardinality(S) : o[i] = o[j] => i = j}

\* Repo.compute_fingerprint: list_raw_artifacts (no ORDER BY), then
\* _fingerprint_raw_inputs on the list as returned
ComputeFingerprint(scan_id, order) ==
    /\ order \in Orders(Range(list_raw_artifacts(scan_id)))
    /\ fpr' = fpr \cup {[ids |-> order, hash |-> fingerprint_raw_inputs(order)]}
    /\ UNCHANGED <<ingestVars, catalogVars, useCaseVars, consumerVars, reconVars, ups,
                   scan_rows, scan_call, pipe, scan_edges, edge_calls, clock, built, wf>>

NextRaw ==
    \/ \E c \in Companies, ok \in BOOLEAN, s \in ScanIds, k \in UploadKinds, e \in Etags :
            UploadRawArtifact(c, ok, s, k, e)
    \/ \E s \in ScanIds :
            \E order \in Orders(Range(list_raw_artifacts(s))) : ComputeFingerprint(s, order)

SpecRaw == InitIngest /\ [][NextRaw]_vars

(***************************************************************************)
(*          SpecCatalog: datasets and dataset versions (Repo)              *)
(*                                                                         *)
(* Every Repo method runs in one session: its statements see the rows      *)
(* committed when the statement starts (PostgreSQL READ COMMITTED), its    *)
(* writes become visible together at the commit on scope exit, and an      *)
(* exception rolls them back.  A flushed INSERT waits for an uncommitted   *)
(* INSERT of the same unique key and raises IntegrityError against a       *)
(* committed one.                                                          *)
(***************************************************************************)
CompanyTable == {"co1"}

InitCatalog ==
    /\ datasets = <<>>
    /\ dataset_versions = <<>>
    /\ tx = [t \in Txns |-> IdleTx]
    /\ uc = [e \in Execs |-> IdleExec]
    /\ kv = [w \in WorkflowIds |-> "none"]
    /\ engine = [w \in WorkflowIds |-> NoExecution]
    /\ msgs = [m \in Msgs |-> NoMessage]
    /\ recon = IdleRecon
    /\ ServiceInit
    /\ scans = [s \in ScanIds |-> [company_id |-> "co1"]]
    /\ runs = <<>>
    /\ artifacts = <<>>
    /\ objects = {}
    /\ worker = [w \in Workers |-> IdleWorker]
    /\ flow = [f \in Flows |-> IdleFlow]
    /\ claimRes = [w \in Workers |-> [r \in RunIds |-> "none"]]
    /\ claimFirst = [r \in RunIds |-> "none"]
    /\ executed = [r \in RunIds |-> {}]

\* select(Dataset).where(company_id == ..., name == ...).scalar_one_or_none()
SelectDataset(company_id, name) ==
    LET hits == {i \in DOMAIN datasets :
                    datasets[i].company_id = company_id /\ datasets[i].name = name}
    IN IF hits = {} THEN 0 ELSE CHOOSE i \in hits : TRUE

\* select(DatasetVersion).where(dataset_id == ..., is_active.is_(True))
ActiveVersions(dataset_id) ==
    {i \in DOMAIN dataset_versions :
        dataset_versions[i].dataset_id = dataset_id /\ dataset_versions[i].is_active}

VersionRows(dataset_id) ==
    {i \in DOMAIN dataset_versions : dataset_versions[i].dataset_id = dataset_id}

\* a table without uq_datasets_company_name
DatasetKeyTaken_NoConstraint(company_id, name) == FALSE

\* uq_datasets_company_name against committed rows
DatasetKeyTaken(company_id, name) == SelectDataset(company_id, name) # 0

\* uq_dataset_versions_dataset_version against committed rows
VersionKeyTaken(dataset_id, version) ==
    \E i \in VersionRows(dataset_id) : dataset_versions[i].version = version

\* an INSERT of the same unique key flushed by another open transaction
DatasetInsertPending(t, company_id, name) ==
    \E u \in Txns \ {t} :
        /\ tx[u].op = "ensure_dataset" /\ tx[u].pc = "commit"
        /\ tx[u].company_id = company_id /\ tx[u].name = name

VersionInsertPending(t, dataset_id, version) ==
    \E u \in Txns \ {t} :
        /\ tx[u].op \in {"ensure_dataset_version", "bump_dataset_version"}
        /\ tx[u].pc = "commit"
        /\ tx[u].dataset_id = dataset_id /\ tx[u].new_version = version

\* the row lock of SELECT ... FOR UPDATE held by another open transaction
LockedByOther(t, row) == \E u \in Txns \ {t} : tx[u].lock = row

\* a session scope that closes without db.commit()
SessionExit_NoCommit(raised, committed, pending) == committed

\* Repo.session at scope exit: db.commit() after the body returned,
\* db.rollback() and re-raise after it raised
SessionExit(raised, committed, pending) == IF raised THEN committed ELSE pending

Finished(t, op, pc, result) == [IdleTx EXCEPT !.op = op, !.pc = pc, !.result = result]

(***************************************************************************)
(* Repo.ensure_dataset                                                     *)
(***************************************************************************)
\* the first select, the crs check on an existing row, the Company and CRS lookups
EnsureDatasetSelect(t, company_id, name, crs_id) ==
    /\ tx[t].pc = "idle"
    /\ LET existing == SelectDataset(company_id, name)
       IN tx' = [tx EXCEPT ![t] =
            IF existing # 0
            THEN IF crs_id # NULL /\ datasets[existing].crs_id # crs_id
                 THEN Finished(t, "ensure_dataset", "failed", 0)
                 ELSE Finished(t, "ensure_dataset", "done", existing)
            ELSE IF company_id \notin CompanyTable \/ (crs_id # NULL /\ crs_id \notin CrsIds)
                 THEN Finished(t, "ensure_dataset", "failed", 0)
                 ELSE [IdleTx EXCEPT !.op = "ensure_dataset", !.pc = "flush",
                                     !.company_id = company_id, !.name = name,
                                     !.crs_id = crs_id]]
    /\ UNCHANGED <<datasets, dataset_versions, notCatalogVars>>

\* db.add(Dataset(...)); db.flush(): IntegrityError on the unique key or on
\* the NOT NULL crs_id is caught and followed by db.rollback()
EnsureDatasetFlush(t) ==
    /\ tx[t].op = "ensure_dataset" /\ tx[t].pc = "flush"
    /\ ~DatasetInsertPending(t, tx[t].company_id, tx[t].name)
    /\ tx' = [tx EXCEPT ![t].pc =
            IF DatasetKeyTaken(tx[t].company_id, tx[t].name) \/ tx[t].crs_id = NULL
            THEN "reread" ELSE "commit"]
    /\ UNCHANGED <<datasets, dataset_versions, notCatalogVars>>

\* return dataset_id; the session scope commits the INSERT
EnsureDatasetCommit(t) ==
    /\ tx[t].op = "ensure_dataset" /\ tx[t].pc = "commit"
    /\ datasets' = SessionExit(FALSE, datasets,
                            Append(datasets, [company_id |-> tx[t].company_id,
                                              name |-> tx[t].name, crs_id |-> tx[t].crs_id]))
    /\ tx' = [tx EXCEPT ![t] = Finished(t, "ensure_dataset", "done", Len(datasets) + 1)]
    /\ UNCHANGED <<dataset_versions, notCatalogVars>>

\* except IntegrityError: re-read with scalar_one() and repeat the crs check
EnsureDatasetReread(t) ==
    /\ tx[t].op = "ensure_dataset" /\ tx[t].pc = "reread"
    /\ LET existing == SelectDataset(tx[t].company_id, tx[t].name)
       IN tx' = [tx EXCEPT ![t] =
            IF existing = 0 THEN Finished(t, "ensure_dataset", "failed", 0)
            ELSE IF tx[t].crs_id # NULL /\ datasets[existing].crs_id # tx[t].crs_id
                 THEN Finished(t, "ensure_dataset", "failed", 0)
                 ELSE Finished(t, "ensure_dataset", "done", existing)]
    /\ UNCHANGED <<datasets, dataset_versions, notCatalogVars>>


(***************************************************************************)
(* Repo.ensure_dataset_version                                             *)
(***************************************************************************)
\* select the active row (scalar_one_or_none); return it or plan version 1
EnsureVersionSelect(t, dataset_id) ==
    /\ tx[t].pc = "idle"
    /\ dataset_id \in DOMAIN datasets
    /\ Len(dataset_versions) < MaxVersions
    /\ LET act == ActiveVersions(dataset_id)
       IN tx' = [tx EXCEPT ![t] =
            IF Cardinality(act) > 1
            THEN Finished(t, "ensure_dataset_version", "failed", 0)
            ELSE IF act # {}
            THEN Finished(t, "ensure_dataset_version", "done", CHOOSE i \in act : TRUE)
            ELSE [IdleTx EXCEPT !.op = "ensure_dataset_version", !.pc = "flush",
                                !.dataset_id = dataset_id, !.new_version = 1]]
    /\ UNCHANGED <<datasets, dataset_versions, notCatalogVars>>

(***************************************************************************)
(* Repo.bump_dataset_version                                               *)
(***************************************************************************)
\* bump without `active.is_active = False`
DeactivatePrevious_Skipped(rows, active) == rows

\* active.is_active = False
DeactivatePrevious(rows, active) ==
    IF active = 0 THEN rows ELSE [rows EXCEPT ![active].is_active = FALSE]

\* new_version = 1 if active is None else active.version + 1
NewVersion(active) == IF active = 0 THEN 1 ELSE dataset_versions[active].version + 1

\* SELECT ... WHERE is_active FOR UPDATE starts: it finds the committed
\* active row and locks it, or waits for the transaction that holds its lock
BumpSelect(t, dataset_id) ==
    /\ tx[t].pc = "idle"
    /\ dataset_id \in DOMAIN datasets
    /\ Len(dataset_versions) < MaxVersions
    /\ LET act == ActiveVersions(dataset_id)
           a == IF act = {} THEN 0 ELSE CHOOSE i \in act : TRUE
           seen == IF a = 0 THEN 0 ELSE dataset_versions[a].version
       IN tx' = [tx EXCEPT ![t] =
            IF Cardinality(act) > 1
            THEN Finished(t, "bump_dataset_version", "failed", 0)
            ELSE IF a # 0 /\ LockedByOther(t, a)
            THEN [IdleTx EXCEPT !.op = "bump_dataset_version", !.pc = "lock_wait",
                                !.dataset_id = dataset_id, !.target = a,
                                !.seen_version = seen, !.waited = TRUE]
            ELSE [IdleTx EXCEPT !.op = "bump_dataset_version", !.pc = "flush",
                                !.dataset_id = dataset_id, !.lock = a, !.active = a,
                                !.seen_version = seen, !.new_version = NewVersion(a)]]
    /\ UNCHANGED <<datasets, dataset_versions, notCatalogVars>>

\* the lock holder has ended: the WHERE clause is evaluated again on the
\* newest version of the row, which is locked and returned only if it still
\* matches; rows committed after the statement began are not seen
BumpLockAcquire(t) ==
    /\ tx[t].op = "bump_dataset_version" /\ tx[t].pc = "lock_wait"
    /\ ~LockedByOther(t, tx[t].target)
    /\ LET a == IF dataset_versions[tx[t].target].is_active THEN tx[t].target ELSE 0
       IN tx' = [tx EXCEPT ![t] = [@ EXCEPT !.pc = "flush", !.target = 0, !.lock = a,
                                            !.active = a, !.new_version = NewVersion(a)]]
    /\ UNCHANGED <<datasets, dataset_versions, notCatalogVars>>

\* db.add(DatasetVersion(...)); db.flush() of either operation: an
\* IntegrityError leaves the method, the session scope rolls back
VersionFlush(t) ==
    /\ tx[t].op \in {"ensure_dataset_version", "bump_dataset_version"}
    /\ tx[t].pc = "flush"
    /\ ~VersionInsertPending(t, tx[t].dataset_id, tx[t].new_version)
    /\ tx' = [tx EXCEPT ![t] =
            IF VersionKeyTaken(tx[t].dataset_id, tx[t].new_version)
            THEN [Finished(t, tx[t].op, "failed", 0) EXCEPT
                        !.seen_version = tx[t].seen_version, !.waited = tx[t].waited]
            ELSE [@ EXCEPT !.pc = "commit"]]
    /\ dataset_versions' =
            IF VersionKeyTaken(tx[t].dataset_id, tx[t].new_version)
            THEN SessionExit(TRUE, dataset_versions,
                             DeactivatePrevious(dataset_versions, tx[t].active))
            ELSE dataset_versions
    /\ UNCHANGED <<datasets, notCatalogVars>>

\* the session scope commits: the UPDATE of the previous row and the INSERT
\* become visible together and the row lock is released
VersionCommit(t) ==
    /\ tx[t].op \in {"ensure_dataset_version", "bump_dataset_version"}
    /\ tx[t].pc = "commit"
    /\ dataset_versions' =
            SessionExit(FALSE, dataset_versions,
                Append(DeactivatePrevious(dataset_versions, tx[t].active),
                       [dataset_id |-> tx[t].dataset_id, version |-> tx[t].new_version,
                        is_active |-> TRUE]))
    /\ tx' = [tx EXCEPT ![t] =
            [Finished(t, tx[t].op, "done", Len(dataset_versions) + 1) EXCEPT
                        !.seen_version = tx[t].seen_version, !.waited = tx[t].waited,
                        !.new_version = tx[t].new_version]]
    /\ UNCHANGED <<datasets, notCatalogVars>>

\* the method has returned or raised; the caller goes on
TxReturn(t) ==
    /\ tx[t].pc \in {"done", "failed"}
    /\ tx' = [tx EXCEPT ![t] = IdleTx]
    /\ UNCHANGED <<datasets, dataset_versions, notCatalogVars>>

NextCatalog ==
    \/ \E t \in Txns, i \in DatasetInputs : EnsureDatasetSelect(t, i[1], i[2], i[3])
    \/ \E t \in Txns : EnsureDatasetFlush(t)
    \/ \E t \in Txns : EnsureDatasetCommit(t)
    \/ \E t \in Txns : EnsureDatasetReread(t)
    \/ \E t \in Txns, d \in 1..Cardinality(DatasetNames) : EnsureVersionSelect(t, d)
    \/ \E t \in Txns, d \in 1..Cardinality(DatasetNames) : BumpSelect(t, d)
    \/ \E t \in Txns : BumpLockAcquire(t)
    \/ \E t \in Txns : VersionFlush(t)
    \/ \E t \in Txns : VersionCommit(t)
    \/ \E t \in Txns : TxReturn(t)

SpecCatalog == InitCatalog /\ [][NextCatalog]_vars

(***************************************************************************)
(* Repo.create_scan                                                        *)
(***************************************************************************)
\* the owner test skipped
ScanOwnerMismatch_Skipped(ds, company_id) == FALSE

\* if ds.company_id != company_id: raise
ScanOwnerMismatch(ds, company_id) == ds.company_id # company_id

\* dv = db.get(DatasetVersion, id); ds = db.get(Dataset, dv.dataset_id); the
\* three checks; db.add(Scan(...)) committed at scope exit
CreateScan(company_id, dataset_version_id) ==
    /\ Len(scan_rows) < MaxScans
    /\ LET found == /\ dataset_version_id \in DOMAIN dataset_versions
                    /\ dataset_versions[dataset_version_id].dataset_id \in DOMAIN datasets
           dv == dataset_versions[dataset_version_id]
           ds == datasets[dv.dataset_id]
           raises == ~found \/ ScanOwnerMismatch(ds, company_id)
       IN /\ scan_rows' = IF raises THEN scan_rows
                          ELSE Append(scan_rows,
                                  [company_id |-> company_id, dataset_id |-> dv.dataset_id,
                                   dataset_version_id |-> dataset_version_id,
                                   crs_id |-> ds.crs_id, status |-> "CREATED"])
          /\ scan_call' = [company_id |-> company_id, dataset_version_id |-> dataset_version_id,
                           result |-> IF raises THEN "raised" ELSE "created"]
    /\ UNCHANGED <<ingestVars, catalogVars, useCaseVars, consumerVars, reconVars, ups, fpr, pipe,
                   scan_edges, edge_calls, clock, built, wf>>

\* one caller of the dataset operations (it never waits for a row lock), and
\* create_scan
NextScans ==
    \/ \E i \in DatasetInputs : EnsureDatasetSelect(1, i[1], i[2], i[3])
    \/ EnsureDatasetFlush(1)
    \/ EnsureDatasetCommit(1)
    \/ EnsureDatasetReread(1)
    \/ \E d \in 1..Cardinality(DatasetNames) : EnsureVersionSelect(1, d)
    \/ \E d \in 1..Cardinality(DatasetNames) : BumpSelect(1, d)
    \/ VersionFlush(1)
    \/ VersionCommit(1)
    \/ TxReturn(1)
    \/ \E c \in Companies, v \in 1..(MaxVersions + 1) : CreateScan(c, v)

SpecScans == InitCatalog /\ [][NextScans]_vars

(***************************************************************************)
(*     SpecPipeline: the ingest stage of the pipeline orchestrators        *)
(***************************************************************************)
\* the dataset version ids a child ingest workflow may return
DvIds == 1..MaxVersions

\* the result of one child ingest workflow
IngestResult(scan, dv) == [scan_id |-> scan, dataset_version_id |-> dv]

\* _FullPipelineWorkflowBase._run_full_pipeline, one turn of the ingest loop:
\* the child workflow returns dv (or fails: ok = FALSE), the dataset version
\* is compared with the first one, then load_ingest_manifest gives the SRS
\* of the scan's manifest, which is compared with the first one
FullPipelineIngest(dv, ok, srs) ==
    LET p == pipe["full_pipeline"]
        n == Len(p.results) + 1
        mismatch == p.dataset_version_id # 0 /\ dv # p.dataset_version_id
        srs_clash == srs # NULL /\ p.srs # NULL /\ srs # p.srs
    IN /\ p.pc \in {"init", "ingest"}
       /\ pipe' = [pipe EXCEPT !["full_pipeline"] =
            IF ~ok THEN [p EXCEPT !.pc = "failed"]
            ELSE IF mismatch
            THEN [p EXCEPT !.pc = "failed", !.results = Append(@, IngestResult(n, dv))]
            ELSE [p EXCEPT !.results = Append(@, IngestResult(n, dv)),
                           !.dataset_version_id = dv,
                           !.srs = IF p.srs = NULL THEN srs ELSE @,
                           !.pc = IF srs_clash THEN "failed"
                                  ELSE IF n = PipelineScans THEN "profiling" ELSE "ingest"]]
       /\ UNCHANGED <<ingestVars, catalogVars, useCaseVars, consumerVars, reconVars,
                      ups, fpr, scan_rows, scan_call, scan_edges, edge_calls, clock, built, wf>>

\* the first dataset version id of a list of results, as the loop
\* `if self._dataset_version_id is None: ...` leaves it
FirstDatasetVersion(results) == IF results = <<>> THEN 0 ELSE results[1].dataset_version_id

\* NewArchitectureWorkflow.run, the smart-ingest stage: the children run in
\* parallel, asyncio.gather returns all results (or raises when a child
\* failed), the loop collects scan ids and the first dataset version id
NewArchitectureIngest(dvs, ok) ==
    LET p == pipe["new_architecture"]
        results == [i \in 1..PipelineScans |-> IngestResult(i, dvs[i])]
    IN /\ p.pc = "init"
       /\ pipe' = [pipe EXCEPT !["new_architecture"] =
            IF ~ok THEN [p EXCEPT !.pc = "failed"]
            ELSE [p EXCEPT !.pc = "reproject", !.results = results,
                           !.dataset_version_id = FirstDatasetVersion(results)]]
       /\ UNCHANGED <<ingestVars, catalogVars, useCaseVars, consumerVars, reconVars,
                      ups, fpr, scan_rows, scan_call, scan_edges, edge_calls, clock, built, wf>>

NextPipeline ==
    \/ \E dv \in DvIds, ok \in BOOLEAN, srs \in ManifestSrs : FullPipelineIngest(dv, ok, srs)
    \/ \E dvs \in [1..PipelineScans -> DvIds], ok \in BOOLEAN : NewArchitectureIngest(dvs, ok)

SpecPipeline == InitCatalog /\ [][NextPipeline]_vars

(***************************************************************************)
(*     SpecEdges: the registration graph (Repo.add_scan_edges)             *)
(***************************************************************************)
\* the edges a caller proposes: e["from"], e["to"], e.get("kind"),
\* e.get("weight"), e.get("transform_guess"), e.get("meta")
EdgeInputs ==
    {[from |-> p[1], to |-> p[2], kind |-> "traj_tail_head", weight |-> w,
      transform_guess |-> g[1], meta |-> g[2]] :
        p \in {<<"s1", "s2">>, <<"s2", "s1">>}, w \in 1..MaxWeight,
        g \in {<<"g1", "m1">>, <<"g2", "m2">>}}

EdgeLists == UNION {[1..n -> EdgeInputs] : n \in 0..MaxEdges}

\* rows.append({...}) for one edge
EdgeRow(company_id, dataset_version_id, e) ==
    [company_id |-> company_id, dataset_version_id |-> dataset_version_id,
     scan_id_from |-> e.from, scan_id_to |-> e.to, kind |-> e.kind, weight |-> e.weight,
     transform_guess |-> e.transform_guess, meta |-> e.meta]

\* uq_scan_edges_dv_from_to_kind
EdgeKey(r) == <<r.dataset_version_id, r.scan_id_from, r.scan_id_to, r.kind>>

\* ON CONFLICT DO UPDATE SET weight = CASE WHEN weight < excluded.weight
\* THEN excluded.weight ELSE weight END, transform_guess and meta = excluded
EdgeUpdate(old, excluded) ==
    [old EXCEPT !.weight = IF old.weight < excluded.weight THEN excluded.weight
                           ELSE old.weight,
                !.transform_guess = excluded.transform_guess, !.meta = excluded.meta]

\* db.execute(pg_insert(ScanEdge).values(rows).on_conflict_do_update(...)):
\* the rows are taken in turn; a row that conflicts with a row this same
\* command has inserted or updated makes the command fail ("ON CONFLICT DO
\* UPDATE command cannot affect row a second time")
RECURSIVE InsertOnConflict(_, _, _, _)
InsertOnConflict(table, rows, i, touched) ==
    IF i > Len(rows) THEN [raised |-> FALSE, table |-> table]
    ELSE IF EdgeKey(rows[i]) \in touched THEN [raised |-> TRUE, table |-> table]
    ELSE LET hit == {r \in table : EdgeKey(r) = EdgeKey(rows[i])}
             next == IF hit = {} THEN table \cup {rows[i]}
                     ELSE (table \ hit) \cup {EdgeUpdate(r, rows[i]) : r \in hit}
         IN InsertOnConflict(next, rows, i + 1, touched \cup {EdgeKey(rows[i])})

\* Repo.add_scan_edges: an empty list returns 0 without a session; otherwise
\* one statement inside one session scope
AddScanEdges(company_id, dataset_version_id, edges) ==
    /\ Len(edge_calls) < MaxEdgeCalls
    /\ LET rows == [i \in DOMAIN edges |-> EdgeRow(company_id, dataset_version_id, edges[i])]
           res == InsertOnConflict(scan_edges, rows, 1, {})
       IN /\ scan_edges' = IF edges = <<>> THEN scan_edges
                           ELSE SessionExit(res.raised, scan_edges, res.table)
          /\ edge_calls' = Append(edge_calls,
                                  [dataset_version_id |-> dataset_version_id,
                                   edges |-> edges, raised |-> res.raised])
    /\ UNCHANGED <<ingestVars, catalogVars, useCaseVars, consumerVars, reconVars,
                   ups, fpr, scan_rows, scan_call, pipe, clock, built, wf>>

NextEdges == \E edges \in EdgeLists : AddScanEdges("co1", 1, edges)

SpecEdges == InitCatalog /\ [][NextEdges]_vars

(***************************************************************************)
(*     SpecManifest: build_ingest_manifest (lidar_app/app/ingest.py)       *)
(***************************************************************************)
\* raw artifact rows as the builder reads them: kind and s3_key
RawArtLists ==
    {<<>>,
     <<[kind |-> "raw.point_cloud", key |-> "cloud.laz"]>>,
     <<[kind |-> "raw.point_cloud", key |-> "cloud.las"]>>,
     <<[kind |-> "raw.trajectory", key |-> "path.txt"],
       [kind |-> "raw.point_cloud", key |-> "cloud.laz"]>>}

\* scan.meta["manifest"]: no overrides, or an override of ingest.created_at
ManifestOverrides == {NULL, "2024-01-01T00:00:00+00:00"}

\* the arguments of one call: the run, the scan (crs_id, meta) and the rows
ManifestArgs ==
    [run_id : RunIds, crs_id : {NULL, "crs1"}, overrides : ManifestOverrides,
     raw_arts : RawArtLists]

\* _detect_point_cloud_format: the suffix of the first raw.point_cloud key
DetectPointCloudFormat(raw_arts) ==
    LET clouds == {i \in DOMAIN raw_arts : raw_arts[i].kind = "raw.point_cloud"}
    IN IF clouds = {} THEN NULL
       ELSE LET name == raw_arts[CHOOSE i \in clouds : \A j \in clouds : i <= j].key
            IN IF name = "cloud.laz" THEN "laz" ELSE IF name = "cloud.las" THEN "las" ELSE NULL

\* _artifact_by_kind: the first row of the kind, or None
ArtifactByKind(raw_arts, kind) ==
    LET hit == {i \in DOMAIN raw_arts : raw_arts[i].kind = kind}
    IN IF hit = {} THEN NULL ELSE raw_arts[CHOOSE i \in hit : \A j \in hit : i <= j]

\* _deep_merge(manifest, overrides) on the one key the overrides set
DeepMerge(manifest, overrides) ==
    IF overrides = NULL THEN manifest ELSE [manifest EXCEPT !.created_at = overrides]

\* the manifest dict, by the fields that depend on an argument or on the
\* environment; "created_at" is datetime.now(timezone.utc).isoformat()
ManifestDict(args, now) ==
    [point_cloud_format |-> DetectPointCloudFormat(args.raw_arts),
     crs_id |-> args.crs_id,
     control_points_table |-> ArtifactByKind(args.raw_arts, "raw.control_point"),
     run_id |-> args.run_id,
     created_at |-> now,
     raw_artifacts |-> args.raw_arts]

\* build_ingest_manifest(run=, scan=, raw_arts=)
BuildIngestManifest(args) ==
    /\ Len(built) < MaxBuilds
    /\ built' = Append(built, [args |-> args,
                               json |-> DeepMerge(ManifestDict(args, clock), args.overrides)])
    /\ UNCHANGED <<ingestVars, catalogVars, useCaseVars, consumerVars, reconVars,
                   ups, fpr, scan_rows, scan_call, pipe, scan_edges, edge_calls, clock, wf>>

\* time passes between two calls
Tick ==
    /\ clock < MaxClock
    /\ clock' = clock + 1
    /\ UNCHANGED <<ingestVars, catalogVars, useCaseVars, consumerVars, reconVars,
                   ups, fpr, scan_rows, scan_call, pipe, scan_edges, edge_calls, built, wf>>

NextManifest ==
    \/ \E args \in ManifestArgs : BuildIngestManifest(args)
    \/ Tick

SpecManifest == InitCatalog /\ [][NextManifest]_vars

(***************************************************************************)
(*     SpecSmartIngest: SmartIngestWorkflow.run up to its logic record     *)
(***************************************************************************)
\* what count_scans_in_dataset_version may return
ScanCounts == {0, 4, 5, 6}

\* params.crs_epsg is None
NoEpsg == 0

\* f"EPSG:{params.crs_epsg}"
EpsgCrsId(epsg) == IF epsg = 1 THEN "crs1" ELSE "crs2"

\* crs_id = params.crs_id, or the EPSG name when only crs_epsg is given
SmartCrsId(crs_id, crs_epsg) ==
    IF crs_epsg # NoEpsg /\ crs_id = NULL THEN EpsgCrsId(crs_epsg) ELSE crs_id

\* run() starts: ensure_company, then ensure_crs when crs_id is set
SmartStart(crs_id, crs_epsg, override_crs_id) ==
    /\ wf.smart.pc \in {"Initializing", "Completed", "Failed"}
    /\ wf.smart.runs < MaxSmartRuns
    /\ wf' = [wf EXCEPT !.smart =
                [IdleSmart EXCEPT !.pc = "Ensuring dataset exists",
                                  !.crs_id = SmartCrsId(crs_id, crs_epsg),
                                  !.override_crs_id = override_crs_id,
                                  !.runs = wf.smart.runs + 1]]
    /\ UNCHANGED <<ingestVars, catalogVars, useCaseVars, consumerVars, reconVars,
                   ups, fpr, scan_rows, scan_call, pipe, scan_edges, edge_calls, clock, built>>

\* the ensure_dataset activity (Repo.ensure_dataset with no concurrent
\* caller), then the dataset version, the scan, the uploads, the ingest run
\* and the profiling, none of which touches what the logic record reads
SmartEnsureDataset(name) ==
    /\ wf.smart.pc = "Ensuring dataset exists"
    /\ LET existing == SelectDataset("co1", name)
           crs_id == wf.smart.crs_id
           raises == IF existing # 0
                     THEN crs_id # NULL /\ datasets[existing].crs_id # crs_id
                     ELSE crs_id = NULL
       IN /\ datasets' = IF existing = 0
                         THEN SessionExit(raises, datasets,
                                Append(datasets, [company_id |-> "co1", name |-> name,
                                                  crs_id |-> crs_id]))
                         ELSE datasets
          /\ wf' = [wf EXCEPT !.smart =
                IF raises THEN [@ EXCEPT !.pc = "Failed"]
                ELSE [@ EXCEPT !.pc = "Computing Logic",
                               !.dataset_id = IF existing = 0 THEN Len(datasets) + 1
                                              ELSE existing]]
    /\ UNCHANGED <<ingestVars, dataset_versions, tx, useCaseVars, consumerVars, reconVars,
                   ups, fpr, scan_rows, scan_call, pipe, scan_edges, edge_calls, clock, built>>

\* georeference, target_crs_id and the logic_update dict
LogicUpdate(scan_count, override_crs_id, crs_id) ==
    [georeference |-> IF scan_count < 5 THEN "NO" ELSE "YES",
     reproject |-> "YES",
     target_crs_id |-> IF override_crs_id # NULL THEN override_crs_id ELSE crs_id,
     profiling_scan_count |-> scan_count]

\* count_scans_in_dataset_version returns, the flags are computed, the
\* manifest is updated and run() returns the record
SmartComputeLogic(scan_count) ==
    /\ wf.smart.pc = "Computing Logic"
    /\ wf' = [wf EXCEPT !.smart =
                [@ EXCEPT !.pc = "Completed", !.scan_count = scan_count,
                          !.logic = LogicUpdate(scan_count, wf.smart.override_crs_id,
                                                wf.smart.crs_id)]]
    /\ UNCHANGED <<ingestVars, catalogVars, useCaseVars, consumerVars, reconVars,
                   ups, fpr, scan_rows, scan_call, pipe, scan_edges, edge_calls, clock, built>>

NextSmartIngest ==
    \/ \E crs_id \in CrsIds \cup {NULL}, crs_epsg \in {NoEpsg, 1, 2},
          override_crs_id \in CrsIds \cup {NULL} :
            SmartStart(crs_id, crs_epsg, override_crs_id)
    \/ \E name \in DatasetNames : SmartEnsureDataset(name)
    \/ \E scan_count \in ScanCounts : SmartComputeLogic(scan_count)

SpecSmartIngest == InitCatalog /\ [][NextSmartIngest]_vars

(***************************************************************************)
(*     SpecNormalize: the CRS normalizer on custom projection descriptors  *)
(*     (lidar_app/app/crs_normalizer; "MSK" stands for the Cyrillic tag)   *)
(***************************************************************************)
\* an Optional[int] field that is None
NoInt == -1

\* custom UTM descriptors as they arrive in a raw request
UtmDescriptors ==
    [zone_family : {"UTM"}, datum : {"WGS84", "SK42"},
     z_mode : {"ellipsoidal", "orthometric"}, geoid_model : {NULL, "egm2008"},
     utm_zone : {NoInt, 0, 1, 37, 60, 61}, utm_hemisphere : {NULL, "N", "S", "n", "X"},
     msk_region : {NoInt}, msk_zone : {NoInt}, msk_variant : {NULL},
     towgs84 : {NULL}, helmert_convention : {NULL}]

\* custom MSK descriptors as they arrive in a raw request
MskDescriptors ==
    [zone_family : {"MSK"}, datum : {"SK42", "WGS84"},
     z_mode : {"ellipsoidal"}, geoid_model : {NULL},
     utm_zone : {NoInt}, utm_hemisphere : {NULL},
     msk_region : {NoInt, 66, 77, 99}, msk_zone : {NoInt, 1, 9},
     msk_variant : {NULL, "calc", "gost"},
     towgs84 : {NULL, "", "1,2,3,4,5,6,7", "1,2,3"},
     helmert_convention : {NULL, "position_vector", "coordinate_frame"}]

Descriptors == UtmDescriptors \cup MskDescriptors

\* the preset table: region 66 has a gost_towgs84, region 77 has none
MskPresets ==
    [r \in {66, 77} |->
        [zones |-> {1},
         gost_towgs84 |-> IF r = 66 THEN "23.57,-140.95,-79.8,0,0.35,0.79,-0.22" ELSE NULL]]

\* the call raised: no record is returned
Raised == [ok |-> FALSE, epsg |-> 0, towgs84 |-> NULL, helmert_convention |-> NULL]

\* Python truth of an Optional[str]
Truthy(s) == s # NULL /\ s # ""

\* IngestRequest.model_validate on a CRSCustom: the Literal fields
ModelValidate(crs) ==
    /\ crs.datum \in {"WGS84", "CGCS2000", "PZ90", "SK42", "SK95"}
    /\ crs.utm_hemisphere \in {NULL, "N", "S"}
    /\ crs.msk_variant \in {NULL, "calc", "gost"}
    /\ crs.helmert_convention \in {NULL, "position_vector"}

\* _parse_towgs84_7 accepts seven comma-separated numbers
ParsesTowgs84(s) == s \in {"1,2,3,4,5,6,7", "23.57,-140.95,-79.8,0,0.35,0.79,-0.22"}

\* a range check that lets zone 61 through
UtmZoneOK_UpTo61(zone) == 1 <= zone /\ zone <= 61

\* 1 <= crs_spec.utm_zone <= 60
UtmZoneOK(zone) == 1 <= zone /\ zone <= 60

\* a choice that prefers the preset to the descriptor
GostTowgs84_PresetFirst(towgs84, gost_towgs84) ==
    IF Truthy(gost_towgs84) THEN gost_towgs84 ELSE towgs84

\* crs_spec.towgs84 or reg.gost_towgs84
GostTowgs84(towgs84, gost_towgs84) == IF Truthy(towgs84) THEN towgs84 ELSE gost_towgs84

\* normalize_crs_spec on a custom descriptor of ccrs_type projection
NormalizeCrsSpec(crs, msk_presets) ==
    IF crs.z_mode = "orthometric" /\ ~Truthy(crs.geoid_model) THEN Raised
    ELSE IF crs.zone_family = "UTM"
    THEN IF crs.datum # "WGS84" THEN Raised
         ELSE IF crs.utm_zone = NoInt \/ crs.utm_hemisphere = NULL THEN Raised
         ELSE IF ~UtmZoneOK(crs.utm_zone) THEN Raised
         ELSE [ok |-> TRUE,
               epsg |-> IF crs.utm_hemisphere = "N" THEN 32600 + crs.utm_zone
                        ELSE 32700 + crs.utm_zone,
               towgs84 |-> NULL, helmert_convention |-> NULL]
    ELSE IF crs.zone_family # "MSK" THEN Raised
    ELSE IF crs.datum # "SK42" THEN Raised
    ELSE IF crs.msk_region = NoInt \/ crs.msk_zone = NoInt \/ crs.msk_variant = NULL
    THEN Raised
    ELSE IF crs.msk_region \notin DOMAIN msk_presets THEN Raised
    ELSE IF crs.msk_zone \notin msk_presets[crs.msk_region].zones THEN Raised
    ELSE IF crs.msk_variant # "gost"
    THEN [ok |-> TRUE, epsg |-> 0, towgs84 |-> NULL, helmert_convention |-> NULL]
    ELSE IF crs.helmert_convention # "position_vector" THEN Raised
    ELSE LET towgs84 == GostTowgs84(crs.towgs84, msk_presets[crs.msk_region].gost_towgs84)
         IN IF ~Truthy(towgs84) THEN Raised
            ELSE IF ~ParsesTowgs84(towgs84) THEN Raised
            ELSE [ok |-> TRUE, epsg |-> 0, towgs84 |-> towgs84,
                  helmert_convention |-> crs.helmert_convention]

\* IngestRequest.model_validate(raw), then normalize_to_workflow(req)
NormalizeToWorkflow(crs) ==
    /\ wf.norm.pc = "idle"
    /\ wf' = [wf EXCEPT !.norm =
                [pc |-> "done", crs |-> crs,
                 result |-> IF ModelValidate(crs) THEN NormalizeCrsSpec(crs, MskPresets)
                            ELSE Raised]]
    /\ UNCHANGED <<ingestVars, catalogVars, useCaseVars, consumerVars, reconVars,
                   ups, fpr, scan_rows, scan_call, pipe, scan_edges, edge_calls, clock, built>>

\* the caller has taken the payload or the error
NormalizeReturn ==
    /\ wf.norm.pc = "done"
    /\ wf' = [wf EXCEPT !.norm = IdleNorm]
    /\ UNCHANGED <<ingestVars, catalogVars, useCaseVars, consumerVars, reconVars,
                   ups, fpr, scan_rows, scan_call, pipe, scan_edges, edge_calls, clock, built>>

NextNormalize ==
    \/ \E crs \in Descriptors : NormalizeToWorkflow(crs)
    \/ NormalizeReturn

SpecNormalize == InitCatalog /\ [][NextNormalize]_vars

(***************************************************************************)
(*     SpecNewPipeline: StartNewPipelineUseCase, NewArchitectureWorkflow   *)
(*     and the update_pipeline_status activity on one workflow id          *)
(***************************************************************************)
\* rp = RetryPolicy(maximum_attempts=2)
StatusMaxAttempts == 2

\* workflow_id = await self.temporal.start_pipeline(dto): the workflow is
\* accepted by the engine and starts to run on its worker
StartPipeline(ok) ==
    /\ wf.np.uc = "idle"
    /\ wf' = [wf EXCEPT !.np =
                IF ok THEN [@ EXCEPT !.uc = "set_status", !.run = "notify_init"]
                ELSE [@ EXCEPT !.uc = "raised"]]
    /\ UNCHANGED <<ingestVars, catalogVars, useCaseVars, consumerVars, reconVars,
                   ups, fpr, scan_rows, scan_call, pipe, scan_edges, edge_calls, clock, built>>

\* await self.store.set_status(workflow_id, "STARTED"): an unconditional HSET
UseCaseSetStatus ==
    /\ wf.np.uc = "set_status"
    /\ wf' = [wf EXCEPT !.np = [@ EXCEPT !.uc = "publish_status", !.kv = "STARTED"]]
    /\ UNCHANGED <<ingestVars, catalogVars, useCaseVars, consumerVars, reconVars,
                   ups, fpr, scan_rows, scan_call, pipe, scan_edges, edge_calls, clock, built>>

\* await self.publisher.publish_status(...); return workflow_id
UseCasePublish ==
    /\ wf.np.uc = "publish_status"
    /\ wf' = [wf EXCEPT !.np = [@ EXCEPT !.uc = "returned"]]
    /\ UNCHANGED <<ingestVars, catalogVars, useCaseVars, consumerVars, reconVars,
                   ups, fpr, scan_rows, scan_call, pipe, scan_edges, edge_calls, clock, built>>

\* the status each update_pipeline_status call of run() carries
NotifyStatus(pc) ==
    CASE pc = "notify_init" -> "IN_PROGRESS"
      [] pc = "notify_progress" -> "IN_PROGRESS"
      [] pc = "notify_done" -> "DONE"
      [] pc = "notify_failed" -> "FAILED"

\* where run() goes when the activity has succeeded
AfterNotify(pc) ==
    CASE pc = "notify_init" -> "stages"
      [] pc = "notify_progress" -> "publish"
      [] pc = "notify_done" -> "returned"
      [] pc = "notify_failed" -> "raised"

\* where run() goes when the activity has failed on its last attempt: the
\* first call is outside the try, the handler's own call re-raises
AfterNotifyError(pc) ==
    IF pc \in {"notify_progress", "notify_done"} THEN "notify_failed" ELSE "raised"

\* one attempt of update_pipeline_status: HSET in KeyDB, then the publish to
\* RabbitMQ; any exception is re-raised and the engine retries
UpdatePipelineStatus(redis_ok, rabbit_ok) ==
    /\ wf.np.run \in {"notify_init", "notify_progress", "notify_done", "notify_failed"}
    /\ LET status == NotifyStatus(wf.np.run)
           ok == redis_ok /\ rabbit_ok
           last == wf.np.attempt + 1 >= StatusMaxAttempts
       IN wf' = [wf EXCEPT !.np =
            [@ EXCEPT !.kv = IF redis_ok THEN status ELSE @,
                      !.written = IF redis_ok THEN @ \cup {status} ELSE @,
                      !.attempt = IF ok \/ last THEN 0 ELSE @ + 1,
                      !.notify_error = @ \/ (~ok /\ last),
                      !.run = IF ok THEN AfterNotify(@)
                              ELSE IF last THEN AfterNotifyError(@) ELSE @]]
    /\ UNCHANGED <<ingestVars, catalogVars, useCaseVars, consumerVars, reconVars,
                   ups, fpr, scan_rows, scan_call, pipe, scan_edges, edge_calls, clock, built>>

\* the stages ingest, reproject, icp_register, new_cluster and old_cluster
Stages(ok) ==
    /\ wf.np.run = "stages"
    /\ wf' = [wf EXCEPT !.np =
                IF ok THEN [@ EXCEPT !.run = "notify_progress"]
                ELSE [@ EXCEPT !.run = "notify_failed", !.stage_raised = TRUE]]
    /\ UNCHANGED <<ingestVars, catalogVars, useCaseVars, consumerVars, reconVars,
                   ups, fpr, scan_rows, scan_call, pipe, scan_edges, edge_calls, clock, built>>

\* the publish stage: export_merged_laz
PublishStage(ok) ==
    /\ wf.np.run = "publish"
    /\ wf' = [wf EXCEPT !.np =
                IF ok THEN [@ EXCEPT !.run = "notify_done", !.publish_ok = TRUE]
                ELSE [@ EXCEPT !.run = "notify_failed", !.stage_raised = TRUE]]
    /\ UNCHANGED <<ingestVars, catalogVars, useCaseVars, consumerVars, reconVars,
                   ups, fpr, scan_rows, scan_call, pipe, scan_edges, edge_calls, clock, built>>

NextNewPipeline ==
    \/ \E ok \in BOOLEAN : StartPipeline(ok)
    \/ UseCaseSetStatus
    \/ UseCasePublish
    \/ \E redis_ok, rabbit_ok \in BOOLEAN : UpdatePipelineStatus(redis_ok, rabbit_ok)
    \/ \E ok \in BOOLEAN : Stages(ok)
    \/ \E ok \in BOOLEAN : PublishStage(ok)

SpecNewPipeline == InitCatalog /\ [][NextNewPipeline]_vars

(***************************************************************************)
(*     SpecCluster: ClusterPipeline.run over its continue-as-new chain     *)
(***************************************************************************)
TileIds == 1..MaxTiles

\* what split_into_tiles can return: the tiles it wrote, in any order
TileLists ==
    UNION {{s \in [1..n -> TileIds] : \A i, j \in 1..n : i # j => s[i] # s[j]} : n \in 1..MaxTiles}

\* sorted(tiles_result["tiles"])
Sorted(s) == SortSeq(s, LAMBDA a, b : a < b)

\* crop_result["cropped_tile"] of the tile
CroppedTile(tile) == <<"cropped", tile>>

Min(a, b) == IF a <= b THEN a ELSE b

\* a caller starts the workflow: ClusterPipelineParams(dataset_version_id,
\* schema_version[, batch_size])
ClusterStart(batch_size) ==
    /\ wf.cluster.pc = "idle"
    /\ wf' = [wf EXCEPT !.cluster = [@ EXCEPT !.pc = "run", !.execution = 1,
                                                !.batch_size = batch_size]]
    /\ UNCHANGED <<ingestVars, catalogVars, useCaseVars, consumerVars, reconVars,
                   ups, fpr, scan_rows, scan_call, pipe, scan_edges, edge_calls, clock, built>>

\* the head of run: tiles and cropped_tiles from the params, the download,
\* extract and split activities when there are no tiles yet, the bounds of
\* the batch
ClusterBegin(tiles_result, ok) ==
    /\ wf.cluster.pc = "run"
    /\ LET c == wf.cluster
           tiles == IF c.tiles = <<>> THEN Sorted(tiles_result) ELSE c.tiles
       IN wf' = [wf EXCEPT !.cluster =
                IF c.tiles = <<>> /\ ~ok THEN [@ EXCEPT !.pc = "failed"]
                ELSE [@ EXCEPT !.pc = "process",
                               !.local_tiles = tiles,
                               !.local_cropped = c.cropped_tiles,
                               !.pos = c.tile_index,
                               !.end_index = Min(c.tile_index + c.batch_size, Len(tiles))]]
    /\ UNCHANGED <<ingestVars, catalogVars, useCaseVars, consumerVars, reconVars,
                   ups, fpr, scan_rows, scan_call, pipe, scan_edges, edge_calls, clock, built>>

\* one pass of `for tile in tiles[start_index:end_index]`: ground split,
\* cluster, merge, crop, cropped_tiles.append(...)
ClusterProcessTile(ok) ==
    /\ wf.cluster.pc = "process"
    /\ wf.cluster.pos < wf.cluster.end_index
    /\ LET c == wf.cluster
           tile == c.local_tiles[c.pos + 1]
       IN wf' = [wf EXCEPT !.cluster =
                IF ok THEN [@ EXCEPT !.pos = @ + 1,
                                     !.processed = Append(@, tile),
                                     !.local_cropped = Append(@, CroppedTile(tile))]
                ELSE [@ EXCEPT !.pc = "failed", !.processed = Append(@, tile)]]
    /\ UNCHANGED <<ingestVars, catalogVars, useCaseVars, consumerVars, reconVars,
                   ups, fpr, scan_rows, scan_call, pipe, scan_edges, edge_calls, clock, built>>

\* continue-as-new params built from the params of the execution, not from
\* what the execution has cropped
ContinueAsNewParams_CroppedFromParams(c) ==
    [c EXCEPT !.tiles = c.local_tiles, !.tile_index = c.end_index,
              !.cropped_tiles = c.cropped_tiles]

\* ClusterPipelineParams(..., tiles=tiles, tile_index=end_index,
\* cropped_tiles=cropped_tiles, meta=meta)
ContinueAsNewParams(c) ==
    [c EXCEPT !.tiles = c.local_tiles, !.tile_index = c.end_index,
              !.cropped_tiles = c.local_cropped]

\* if end_index < len(tiles): await workflow.continue_as_new(...): this
\* execution ends and the next one starts from the new params
ClusterContinueAsNew ==
    /\ wf.cluster.pc = "process"
    /\ wf.cluster.pos = wf.cluster.end_index
    /\ wf.cluster.end_index < Len(wf.cluster.local_tiles)
    /\ wf' = [wf EXCEPT !.cluster =
                [ContinueAsNewParams(@) EXCEPT !.pc = "run", !.execution = @ + 1,
                                               !.local_tiles = <<>>, !.local_cropped = <<>>,
                                               !.pos = 0, !.end_index = 0]]
    /\ UNCHANGED <<ingestVars, catalogVars, useCaseVars, consumerVars, reconVars,
                   ups, fpr, scan_rows, scan_call, pipe, scan_edges, edge_calls, clock, built>>

\* the final merge_tiles activity over cropped_tiles, then the result
ClusterMerge(ok) ==
    /\ wf.cluster.pc = "process"
    /\ wf.cluster.pos = wf.cluster.end_index
    /\ wf.cluster.end_index >= Len(wf.cluster.local_tiles)
    /\ wf' = [wf EXCEPT !.cluster = [@ EXCEPT !.pc = IF ok THEN "done" ELSE "failed",
                                                !.merge_args = wf.cluster.local_cropped]]
    /\ UNCHANGED <<ingestVars, catalogVars, useCaseVars, consumerVars, reconVars,
                   ups, fpr, scan_rows, scan_call, pipe, scan_edges, edge_calls, clock, built>>

NextCluster ==
    \/ \E b \in 1..MaxBatchSize : ClusterStart(b)
    \/ \E t \in TileLists, ok \in BOOLEAN : ClusterBegin(t, ok)
    \/ \E ok \in BOOLEAN : ClusterProcessTile(ok)
    \/ ClusterContinueAsNew
    \/ \E ok \in BOOLEAN : ClusterMerge(ok)

SpecCluster == InitCatalog /\ [][NextCluster]_vars

(***************************************************************************)
(*     SpecMls: MlsPipelineWorkflow.run and its trigger_registration       *)
(*     signal handler, coroutines of one workflow event loop: a step is    *)
(*     the code between two awaits                                         *)
(***************************************************************************)
\* the activities of run between the ingest child and the tail, in order
MlsActivities == <<"resolve srs", "reproject", "preprocess", "anchors", "edges(dataset)">>

\* wf_id = f"reg-{self._dataset_version_id}"
RegId(dataset_version_id) == "reg-" \o dataset_version_id

\* a _start_registration_solver that calls start_child_workflow without
\* recording the workflow id first
StartRegistrationSolver_IdNotRecorded(s, force, who) ==
    [s EXCEPT !.starting = Append(@, [force |-> force, who |-> who])]

\* _start_registration_solver up to its await: the workflow id is recorded,
\* then start_child_workflow is called
StartRegistrationSolver(s, force, who) ==
    [s EXCEPT !.registration_workflow_id = RegId(s.dataset_version_id),
              !.starting = Append(@, [force |-> force, who |-> who])]

\* run up to the ingest child workflow
MlsRunStart ==
    /\ wf.mls.pc = "init"
    /\ wf' = [wf EXCEPT !.mls = [@ EXCEPT !.pc = "child: ingest"]]
    /\ UNCHANGED <<ingestVars, catalogVars, useCaseVars, consumerVars, reconVars,
                   ups, fpr, scan_rows, scan_call, pipe, scan_edges, edge_calls, clock, built>>

\* ingest_res = await execute_child_workflow(...); self._dataset_version_id = ...
MlsIngestDone(ok) ==
    /\ wf.mls.pc = "child: ingest"
    /\ wf' = [wf EXCEPT !.mls =
                IF ok THEN [@ EXCEPT !.pc = MlsActivities[1], !.dataset_version_id = "dv1"]
                ELSE [@ EXCEPT !.pc = "failed"]]
    /\ UNCHANGED <<ingestVars, catalogVars, useCaseVars, consumerVars, reconVars,
                   ups, fpr, scan_rows, scan_call, pipe, scan_edges, edge_calls, clock, built>>

\* one awaited activity of run returns or raises; after the last one:
\* if self._registration_started and self._registration_workflow_id is None
MlsActivityDone(ok) ==
    /\ \E k \in DOMAIN MlsActivities :
          /\ wf.mls.pc = MlsActivities[k]
          /\ wf' = [wf EXCEPT !.mls =
                IF ~ok THEN [@ EXCEPT !.pc = "failed"]
                ELSE IF k < Len(MlsActivities) THEN [@ EXCEPT !.pc = MlsActivities[k + 1]]
                ELSE IF @.registration_started /\ @.registration_workflow_id = NULL
                     THEN [StartRegistrationSolver(@, FALSE, "run") EXCEPT
                                !.pc = "signal: start registration"]
                     ELSE [@ EXCEPT !.pc = "done"]]
    /\ UNCHANGED <<ingestVars, catalogVars, useCaseVars, consumerVars, reconVars,
                   ups, fpr, scan_rows, scan_call, pipe, scan_edges, edge_calls, clock, built>>

\* the trigger_registration signal handler up to its first await
TriggerRegistration(force) ==
    /\ wf.mls.pc \notin {"done", "failed"}
    /\ wf.mls.signals < MaxSignals
    /\ wf' = [wf EXCEPT !.mls =
                LET s == [@ EXCEPT !.signals = @ + 1, !.registration_started = TRUE]
                IN IF s.dataset_version_id = NULL THEN s
                   ELSE IF s.registration_workflow_id # NULL THEN s
                   ELSE StartRegistrationSolver(s, force, "signal")]
    /\ UNCHANGED <<ingestVars, catalogVars, useCaseVars, consumerVars, reconVars,
                   ups, fpr, scan_rows, scan_call, pipe, scan_edges, edge_calls, clock, built>>

\* await workflow.start_child_workflow(...) of the oldest waiting coroutine:
\* the registration-solver child is started; run then returns
SolverStarted ==
    /\ wf.mls.starting # <<>>
    /\ wf.mls.pc # "failed"
    /\ wf' = [wf EXCEPT !.mls =
                [@ EXCEPT !.starting = Tail(@),
                          !.solver_starts = Append(@, Head(wf.mls.starting)),
                          !.pc = IF Head(wf.mls.starting).who = "run" THEN "done" ELSE @]]
    /\ UNCHANGED <<ingestVars, catalogVars, useCaseVars, consumerVars, reconVars,
                   ups, fpr, scan_rows, scan_call, pipe, scan_edges, edge_calls, clock, built>>

NextMls ==
    \/ MlsRunStart
    \/ \E ok \in BOOLEAN : MlsIngestDone(ok)
    \/ \E ok \in BOOLEAN : MlsActivityDone(ok)
    \/ \E force \in BOOLEAN : TriggerRegistration(force)
    \/ SolverStarted

SpecMls == InitCatalog /\ [][NextMls]_vars

(***************************************************************************)
(*        StartIngestUseCase over its three ports                          *)
(*  (application/ingest/use_case.py; every await is one step)              *)
(***************************************************************************)
REGISTRY == {<<"ingest", "1">>}

\* str.strip().lower() on the scenario names of the model
StripLower(s) ==
    CASE s = "ingest" -> "ingest"
      [] s = " Ingest " -> "ingest"
      [] OTHER -> s

\* str.strip() on the pipeline versions of the model
Strip(s) ==
    CASE s = " 1" -> "1"
      [] OTHER -> s

\* TRUE when resolve_scenario returns a spec, FALSE when it raises ValueError
resolve_scenario(scenario, pipeline_version) ==
    <<StripLower(scenario), Strip(pipeline_version)>> \in REGISTRY

TEMPORAL_START_ERROR == "TEMPORAL_START_ERROR"
TEMPORAL_EXECUTION_ERROR == "TEMPORAL_EXECUTION_ERROR"
VALIDATION_ERROR == "VALIDATION_ERROR"

\* entries of an execution's log, in program order
SetStatusCall(status) ==
    [op |-> "set_status", status |-> status, error_code |-> NULL, retryable |-> FALSE]

StatusEvent(status) ==
    [op |-> "publish_status", status |-> status, error_code |-> NULL, retryable |-> FALSE]

FailedEvent(error_code, retryable) ==
    [op |-> "publish_failed", status |-> "FAILED", error_code |-> error_code,
     retryable |-> retryable]

\* publish_completed replaced by a second COMPLETED status event
CompletedEvent_AsStatusEvent ==
    [op |-> "publish_status", status |-> "COMPLETED", error_code |-> NULL,
     retryable |-> FALSE]

CompletedEvent ==
    [op |-> "publish_completed", status |-> "COMPLETED", error_code |-> NULL,
     retryable |-> FALSE]

StartCall(outcome) ==
    [op |-> "start_workflow", status |-> outcome, error_code |-> NULL, retryable |-> FALSE]

\* the exception classes the except clauses of execute catch
CaughtOnStart == {"ApplicationError"}

CaughtOnWait == {"ApplicationError"}

\* execute(command): resolve_scenario, then the first _push_status
Execute(e, workflow_id, scenario, pipeline_version) ==
    /\ uc[e].pc = "idle"
    /\ LET known == resolve_scenario(scenario, pipeline_version) IN
        uc' = [uc EXCEPT ![e] = [@ EXCEPT !.pc = "set_status",
                    !.workflow_id = workflow_id, !.known = known,
                    !.push = IF known THEN "RESOLVED_SCENARIO" ELSE "FAILED"]]
    /\ UNCHANGED <<kv, engine, notUseCaseVars>>

\* _push_status, first half: status_store.set_status (SET, last write wins)
SetStatus(e) ==
    /\ uc[e].pc = "set_status"
    /\ kv' = [kv EXCEPT ![uc[e].workflow_id] = uc[e].push]
    /\ uc' = [uc EXCEPT ![e] = [@ EXCEPT !.pc = "publish_status",
                    !.log = Append(@, SetStatusCall(uc[e].push))]]
    /\ UNCHANGED <<engine, notUseCaseVars>>

\* _push_status, second half: publisher.publish_status, then what execute
\* does after that push
PublishStatus(e) ==
    /\ uc[e].pc = "publish_status"
    /\ LET status == uc[e].push
           logged == Append(uc[e].log, StatusEvent(status)) IN
        uc' = [uc EXCEPT ![e] =
            CASE status = "FAILED" ->
                    [@ EXCEPT !.pc = "raised", !.push = NULL, !.log = logged]
              [] status = "RESOLVED_SCENARIO" ->
                    [@ EXCEPT !.pc = "set_status", !.push = "STARTING", !.log = logged]
              [] status = "STARTING" ->
                    [@ EXCEPT !.pc = "start_workflow", !.push = NULL, !.log = logged]
              [] status = "RUNNING" ->
                    [@ EXCEPT !.pc = "wait_result", !.push = NULL, !.log = logged]
              [] OTHER ->
                    [@ EXCEPT !.pc = "publish_completed", !.push = NULL, !.log = logged]]
    /\ UNCHANGED <<kv, engine, notUseCaseVars>>

\* what client.start_workflow does with an id: a running execution under
\* the id makes the engine refuse the start
StartOutcome(workflow_id, outcome) ==
    IF outcome = "ok" /\ engine[workflow_id].state = "running"
    THEN "WorkflowAlreadyStartedError"
    ELSE outcome

\* temporal.start_workflow and the except clause around it
StartWorkflow(e, outcome) ==
    /\ uc[e].pc = "start_workflow"
    /\ LET id == uc[e].workflow_id
           res == StartOutcome(id, outcome) IN
        /\ engine' = IF res = "ok"
                     THEN [engine EXCEPT ![id] = [state |-> "running",
                                                  executions |-> @.executions + 1]]
                     ELSE engine
        /\ uc' = [uc EXCEPT ![e] = [@ EXCEPT
                    !.pc = IF res = "ok" THEN "query_workflow"
                           ELSE IF res \in CaughtOnStart THEN "start_failed_set_status"
                           ELSE "raised",
                    !.start = res,
                    !.log = Append(@, StartCall(res))]]
    /\ UNCHANGED <<kv, notUseCaseVars>>

\* except ApplicationError: status_store.set_status(FAILED)
StartFailedSetStatus(e) ==
    /\ uc[e].pc = "start_failed_set_status"
    /\ kv' = [kv EXCEPT ![uc[e].workflow_id] = "FAILED"]
    /\ uc' = [uc EXCEPT ![e] = [@ EXCEPT !.pc = "start_failed_publish",
                    !.log = Append(@, SetStatusCall("FAILED"))]]
    /\ UNCHANGED <<engine, notUseCaseVars>>

\* except ApplicationError: publish_failed(TEMPORAL_START_ERROR), raise
StartFailedPublish(e) ==
    /\ uc[e].pc = "start_failed_publish"
    /\ uc' = [uc EXCEPT ![e] = [@ EXCEPT !.pc = "raised",
                    !.log = Append(@, FailedEvent(TEMPORAL_START_ERROR, TRUE))]]
    /\ UNCHANGED <<kv, engine, notUseCaseVars>>

\* temporal.query_workflow, outside any try: an error leaves execute
QueryWorkflow(e, ok) ==
    /\ uc[e].pc = "query_workflow"
    /\ uc' = [uc EXCEPT ![e] =
                IF ok THEN [@ EXCEPT !.pc = "set_status", !.push = "RUNNING"]
                ELSE [@ EXCEPT !.pc = "raised"]]
    /\ UNCHANGED <<kv, engine, notUseCaseVars>>

\* temporal.wait_result and the except clause around it
WaitResult(e, outcome) ==
    /\ uc[e].pc = "wait_result"
    /\ outcome = "ok" => engine[uc[e].workflow_id].state = "completed"
    /\ outcome = "WorkflowFailureError" => engine[uc[e].workflow_id].state = "failed"
    /\ uc' = [uc EXCEPT ![e] =
                IF outcome = "ok" THEN [@ EXCEPT !.pc = "set_status", !.push = "COMPLETED"]
                ELSE IF outcome \in CaughtOnWait THEN [@ EXCEPT !.pc = "wait_failed_publish"]
                ELSE [@ EXCEPT !.pc = "raised"]]
    /\ UNCHANGED <<kv, engine, notUseCaseVars>>

\* except ApplicationError: publish_failed(TEMPORAL_EXECUTION_ERROR), raise
WaitFailedPublish(e) ==
    /\ uc[e].pc = "wait_failed_publish"
    /\ uc' = [uc EXCEPT ![e] = [@ EXCEPT !.pc = "raised",
                    !.log = Append(@, FailedEvent(TEMPORAL_EXECUTION_ERROR, TRUE))]]
    /\ UNCHANGED <<kv, engine, notUseCaseVars>>

\* publisher.publish_completed(result), return result
PublishCompleted(e) ==
    /\ uc[e].pc = "publish_completed"
    /\ uc' = [uc EXCEPT ![e] = [@ EXCEPT !.pc = "returned",
                    !.log = Append(@, CompletedEvent)]]
    /\ UNCHANGED <<kv, engine, notUseCaseVars>>

\* the started IngestWorkflow run ends, with a result or with a failure
WorkflowFinish(workflow_id, state) ==
    /\ engine[workflow_id].state = "running"
    /\ engine' = [engine EXCEPT ![workflow_id].state = state]
    /\ UNCHANGED <<uc, kv, notUseCaseVars>>

InitUseCase == InitCatalog

NextUseCase ==
    \/ \E e \in Execs, id \in WorkflowIds, s \in Scenarios, v \in PipelineVersions :
            Execute(e, id, s, v)
    \/ \E e \in Execs : SetStatus(e)
    \/ \E e \in Execs : PublishStatus(e)
    \/ \E e \in Execs, o \in {"ok", "ApplicationError", "RPCError"} : StartWorkflow(e, o)
    \/ \E e \in Execs : StartFailedSetStatus(e)
    \/ \E e \in Execs : StartFailedPublish(e)
    \/ \E e \in Execs, ok \in BOOLEAN : QueryWorkflow(e, ok)
    \/ \E e \in Execs,
          o \in {"ok", "ApplicationError", "WorkflowFailureError", "RPCError"} :
            WaitResult(e, o)
    \/ \E e \in Execs : WaitFailedPublish(e)
    \/ \E e \in Execs : PublishCompleted(e)
    \/ \E id \in WorkflowIds, st \in {"completed", "failed"} : WorkflowFinish(id, st)

SpecUseCase == InitUseCase /\ [][NextUseCase]_vars

(***************************************************************************)
(*        The ingest.start consumer                                        *)
(*  (main.py process_ingest, interfaces/ingest/consumer.py)                *)
(***************************************************************************)
\* bodies of ingest.start messages: two well-formed commands of a known
\* scenario, one of an unknown pipeline version, one with an empty
\* workflow_id, and one that is no JSON document
Bodies ==
    {[json |-> TRUE, workflow_id |-> "wf-1", scenario |-> "ingest", pipeline_version |-> "1"],
     [json |-> TRUE, workflow_id |-> "wf-2", scenario |-> " Ingest ", pipeline_version |-> " 1"],
     [json |-> TRUE, workflow_id |-> "wf-1", scenario |-> "ingest", pipeline_version |-> "999"],
     [json |-> TRUE, workflow_id |-> "", scenario |-> "ingest", pipeline_version |-> "1"],
     [json |-> FALSE, workflow_id |-> NULL, scenario |-> NULL, pipeline_version |-> NULL]}

\* the two handlers written for the queue
Handlers == {"process_ingest", "process_message"}

\* IngestStartMessageDTO.model_validate_json: TRUE when it returns a DTO,
\* FALSE when it raises ValidationError (no JSON, or a min_length=1 field empty)
model_validate_json(body) ==
    body.json /\ body.workflow_id # "" /\ body.scenario # "" /\ body.pipeline_version # ""

\* process_message lets exceptions leave `async with message.process()`;
\* process_ingest catches Exception inside it and logs
Swallows(handler) == handler = "process_ingest"

\* what `async with message.process()` (default requeue=False) does with the
\* message when its block ends: ack on a normal exit, reject without
\* requeue when an exception leaves the block
ProcessExit(handler, raised) ==
    IF raised /\ ~Swallows(handler) THEN "rejected" ELSE "acked"

\* a producer publishes an ingest.start message
Publish(m, body) ==
    /\ msgs[m].state = "none"
    /\ msgs' = [msgs EXCEPT ![m] = [NoMessage EXCEPT !.state = "ready", !.body = body]]
    /\ UNCHANGED <<useCaseVars, ingestVars, catalogVars, reconVars, serviceVars>>

\* the broker delivers the message; the handler validates the body, maps it
\* to a command and calls execute, which runs up to its first await
Deliver(m, handler) ==
    /\ msgs[m].state = "ready"
    /\ LET body == msgs[m].body
           parsed == model_validate_json(body) IN
        /\ msgs' = [msgs EXCEPT ![m] = [@ EXCEPT !.state = "unacked", !.handler = handler,
                        !.parsed = parsed, !.deliveries = @ + 1]]
        /\ uc' = [uc EXCEPT ![m] =
                IF ~parsed THEN IdleExec
                ELSE LET known == resolve_scenario(body.scenario, body.pipeline_version) IN
                     [IdleExec EXCEPT !.pc = "set_status",
                        !.workflow_id = body.workflow_id, !.known = known,
                        !.push = IF known THEN "RESOLVED_SCENARIO" ELSE "FAILED"]]
    /\ UNCHANGED <<kv, engine, ingestVars, catalogVars, reconVars, serviceVars>>

\* the handler's block ends and message.process() answers the broker
Settle(m) ==
    /\ msgs[m].state = "unacked"
    /\ ~msgs[m].parsed \/ uc[m].pc \in {"returned", "raised"}
    /\ LET raised == ~msgs[m].parsed \/ uc[m].pc = "raised" IN
        msgs' = [msgs EXCEPT ![m].state = ProcessExit(msgs[m].handler, raised)]
    /\ UNCHANGED <<useCaseVars, ingestVars, catalogVars, reconVars, serviceVars>>

InitConsumer == InitCatalog

NextConsumer ==
    \/ \E m \in Msgs, b \in Bodies : Publish(m, b)
    \/ \E m \in Msgs, h \in Handlers : Deliver(m, h)
    \/ \E m \in Msgs : Settle(m)
    \/ \E e \in Execs : SetStatus(e)
    \/ \E e \in Execs : PublishStatus(e)
    \/ \E e \in Execs, o \in {"ok", "ApplicationError", "RPCError"} : StartWorkflow(e, o)
    \/ \E e \in Execs : StartFailedSetStatus(e)
    \/ \E e \in Execs : StartFailedPublish(e)
    \/ \E e \in Execs, ok \in BOOLEAN : QueryWorkflow(e, ok)
    \/ \E e \in Execs,
          o \in {"ok", "ApplicationError", "WorkflowFailureError", "RPCError"} :
            WaitResult(e, o)
    \/ \E e \in Execs : WaitFailedPublish(e)
    \/ \E e \in Execs : PublishCompleted(e)
    \/ \E id \in WorkflowIds, st \in {"completed", "failed"} : WorkflowFinish(id, st)

SpecConsumer == InitConsumer /\ [][NextConsumer]_vars




(***************************************************************************)
(*                    Properties of the ingest-run FSM                     *)
(***************************************************************************)
ClaimWinners(r) == {w \in Workers : claimRes[w][r] = "true"}

ClaimCallers(r) == {w \in Workers : claimRes[w][r] # "none"}

\* C1: of the workers that call claim_ingest_run on a run that is QUEUED
\* when the first of them calls, exactly one gets true and all others get
\* false; no run is ever claimed by two workers.
C1_ExactlyOneClaimWins ==
    \A r \in RunIds :
        /\ Cardinality(ClaimWinners(r)) <= 1
        /\ claimFirst[r] = "QUEUED" => Cardinality(ClaimWinners(r)) = 1

\* two workers raced on one QUEUED run: one won, the other lost
C1_Witness ==
    \E r \in RunIds :
        /\ claimFirst[r] = "QUEUED"
        /\ Cardinality(ClaimCallers(r)) >= 2
        /\ Cardinality(ClaimWinners(r)) = 1
        /\ \E w \in Workers : claimRes[w][r] = "false"

StatusStepAllowed(a, b) ==
    \/ a = b
    \/ a = "QUEUED" /\ b = "RUNNING"
    \/ a = "RUNNING" /\ b \in {"SUCCEEDED", "FAILED"}

\* C2: the status of every ingest run only moves QUEUED -> RUNNING ->
\* SUCCEEDED or FAILED, and never changes after SUCCEEDED or FAILED.
C2_StatusPath ==
    [][\A r \in DOMAIN runs : StatusStepAllowed(runs[r].status, runs'[r].status)]_vars

\* C3: the ingest body of a run is executed by at most one processor
\* (worker loop or process_ingest_run activity).
C3_SingleProcessor ==
    \A r \in RunIds : Cardinality(executed[r]) <= 1

SameInputs(run, fl) ==
    /\ run.company_id = fl.company_id
    /\ run.scan_id = fl.scan_id
    /\ run.schema_version = fl.schema_version
    /\ run.input_fingerprint = fl.fp

C5_ExactlyOneActive ==
    \A d \in DOMAIN datasets : Cardinality(ActiveVersions(d)) = 1

\* C5: every dataset has at most one active dataset-version row, and
\* exactly one as soon as it has any dataset-version row.
C5_OneActiveOnceVersioned ==
    \A d \in DOMAIN datasets :
        /\ Cardinality(ActiveVersions(d)) <= 1
        /\ VersionRows(d) # {} => Cardinality(ActiveVersions(d)) = 1

\* a dataset after a bump: the old row inactive, the new row the only active one
C5_Witness ==
    \E d \in DOMAIN datasets :
        /\ Cardinality(VersionRows(d)) >= 2
        /\ Cardinality(ActiveVersions(d)) = 1
        /\ \E t \in Txns : tx[t].op = "bump_dataset_version" /\ tx[t].pc = "done"
                            /\ tx[t].result \in ActiveVersions(d)

\* C6: a bump_dataset_version call that finds the active version v completes
\* successfully also when another bump runs concurrently, inserting v+1 or v+2.
C6_ConcurrentBumpsSucceed ==
    \A t \in Txns :
        (tx[t].op = "bump_dataset_version" /\ tx[t].seen_version > 0) =>
            /\ tx[t].pc # "failed"
            /\ tx[t].pc = "done" =>
                    tx[t].new_version \in {tx[t].seen_version + 1, tx[t].seen_version + 2}

(***************************************************************************)
(*                 Properties of the ingest use case                       *)
(***************************************************************************)
StatusRank(s) ==
    CASE s = "none" -> 0
      [] s = "RESOLVED_SCENARIO" -> 1
      [] s = "STARTING" -> 2
      [] s = "RUNNING" -> 3
      [] OTHER -> 4

\* C7: for each workflow_id the statuses written to the KV status store only
\* advance (RESOLVED_SCENARIO, STARTING, RUNNING, then COMPLETED or FAILED):
\* no write moves the key backwards or away from a terminal status.
C7_StatusOnlyAdvances ==
    [][\A id \in WorkflowIds :
            kv'[id] # kv[id] => StatusRank(kv[id]) < StatusRank(kv'[id])]_vars

ExecuteEnded(e) == uc[e].pc \in {"returned", "raised"}

Published(e) ==
    {i \in DOMAIN uc[e].log :
        uc[e].log[i].op \in {"publish_status", "publish_failed", "publish_completed"}}

FailedEvents(e) == {i \in DOMAIN uc[e].log : uc[e].log[i].op = "publish_failed"}

StatusWrites(e) == {i \in DOMAIN uc[e].log : uc[e].log[i].op = "set_status"}

\* C8: whenever the use case publishes a status, completed or failed event,
\* it has already written the status that the event carries to the KV store.
C8_StoreBeforePublish ==
    \A e \in Execs : \A i \in Published(e) :
        \E j \in StatusWrites(e) : j < i /\ uc[e].log[j].status = uc[e].log[i].status

\* C9: if the start_workflow call fails, the use case publishes exactly one
\* ingest.failed event, with TEMPORAL_START_ERROR and retryable=true, and the
\* last status it writes to the KV store is FAILED.
C9_StartFailurePublishesFailed ==
    \A e \in Execs :
        (ExecuteEnded(e) /\ uc[e].start \notin {"none", "ok"}) =>
            /\ Cardinality(FailedEvents(e)) = 1
            /\ \A i \in FailedEvents(e) :
                    /\ uc[e].log[i].error_code = TEMPORAL_START_ERROR
                    /\ uc[e].log[i].retryable
            /\ uc[e].log[SetMax(StatusWrites(e))].status = "FAILED"

\* C10: if the command's (scenario, pipeline_version) pair is not in the
\* registry, exactly one ingest.failed event with VALIDATION_ERROR and
\* retryable=false is published and no workflow is started.
C10_UnknownScenarioPublishesFailed ==
    \A e \in Execs :
        (ExecuteEnded(e) /\ ~uc[e].known) =>
            /\ Cardinality(FailedEvents(e)) = 1
            /\ \A i \in FailedEvents(e) :
                    /\ uc[e].log[i].error_code = VALIDATION_ERROR
                    /\ ~uc[e].log[i].retryable
            /\ uc[e].start = "none"

(***************************************************************************)
(*                 Properties of the ingest.start consumer                 *)
(***************************************************************************)
\* the handler's block has ended and the broker has the answer
Settled(m) == msgs[m].state \in {"acked", "rejected"}

\* the delivered message failed validation: its body is malformed or its
\* scenario is unknown
ValidationFailed(m) ==
    msgs[m].deliveries > 0 /\ (~msgs[m].parsed \/ ~uc[m].known)

\* handling the delivered message failed on a gateway call
EngineFailed(m) ==
    msgs[m].deliveries > 0 /\ msgs[m].parsed /\ uc[m].known /\ uc[m].pc = "raised"

\* C11: when an inbound message fails validation (malformed, or unknown
\* scenario) the consumer acks it and a FailedEvent with VALIDATION_ERROR
\* is published.
C11_ValidationFailureAckedAndReported ==
    \A m \in Msgs :
        (ValidationFailed(m) /\ Settled(m)) =>
            /\ msgs[m].state = "acked"
            /\ \E i \in FailedEvents(m) : uc[m].log[i].error_code = VALIDATION_ERROR

\* C12: when handling a message fails on a workflow-engine or infrastructure
\* error the message is not consumed: it is neither acked nor dropped, it
\* goes back to the queue.
C12_EngineFailureRequeues ==
    \A m \in Msgs : EngineFailed(m) => ~Settled(m)

(***************************************************************************)
(*                 Properties of the workflow gateway                      *)
(***************************************************************************)
\* C13: a start_workflow call with the id of an already-running workflow,
\* when the engine answers it, returns success and creates no second
\* workflow execution.
C13_StartIsIdempotentOnId ==
    [][\A e \in Execs :
            (/\ uc[e].pc = "start_workflow"
             /\ uc'[e].pc # "start_workflow"
             /\ engine[uc[e].workflow_id].state = "running"
             /\ uc'[e].start \notin {"ApplicationError", "RPCError"})
            => (uc'[e].start = "ok" /\ engine' = engine)]_vars

\* two executions of the use case for one command
SameCommand(e1, e2) ==
    /\ e1 # e2
    /\ uc[e1].workflow_id # NULL
    /\ uc[e1].workflow_id = uc[e2].workflow_id
    /\ uc[e1].known /\ uc[e2].known

\* C14: executing the use case twice with the same command leaves the
\* engine and the KV store as one execution does: when one of the two
\* executions has completed the command, there is one workflow execution
\* under the workflow_id and the KV status is COMPLETED.
C14_TwiceAsOnce ==
    \A e1, e2 \in Execs :
        (SameCommand(e1, e2) /\ uc[e1].pc = "returned" /\ ExecuteEnded(e2)) =>
            /\ engine[uc[e1].workflow_id].executions <= 1
            /\ kv[uc[e1].workflow_id] = "COMPLETED"

\* the port calls of an execution, as (operation, status) pairs in program order
Calls(e) == [i \in DOMAIN uc[e].log |-> <<uc[e].log[i].op, uc[e].log[i].status>>]

\* C15: when scenario resolution and every gateway call succeed, the use case
\* pushes exactly RESOLVED_SCENARIO, STARTING, RUNNING, COMPLETED in that
\* order (each push a store write followed by a status event), calls
\* start_workflow after STARTING and before RUNNING, and publishes exactly
\* one completed event, after COMPLETED.
C15_HappyPathOrder ==
    \A e \in Execs :
        uc[e].pc = "returned" =>
            Calls(e) = << <<"set_status", "RESOLVED_SCENARIO">>,
                          <<"publish_status", "RESOLVED_SCENARIO">>,
                          <<"set_status", "STARTING">>,
                          <<"publish_status", "STARTING">>,
                          <<"start_workflow", "ok">>,
                          <<"set_status", "RUNNING">>,
                          <<"publish_status", "RUNNING">>,
                          <<"set_status", "COMPLETED">>,
                          <<"publish_status", "COMPLETED">>,
                          <<"publish_completed", "COMPLETED">> >>

\* an execution went through to the end while the other one, for the same
\* workflow id, was under way
C15_Witness ==
    \E e1, e2 \in Execs :
        /\ e1 # e2
        /\ uc[e1].pc = "returned"
        /\ uc[e2].workflow_id = uc[e1].workflow_id
        /\ uc[e2].log # <<>>

(***************************************************************************)
(*                 Properties of the manifest rows                         *)
(***************************************************************************)
ManifestRows == {i \in DOMAIN artifacts : artifacts[i].kind = ManifestKind}

\* C16: a derived.ingest_manifest row is AVAILABLE only after the manifest
\* object has been put successfully; until the final upsert the row stays
\* PENDING with null etag and size, also when the put fails.
C16_AvailableOnlyAfterPut ==
    \A i \in ManifestRows :
        /\ artifacts[i].status = "AVAILABLE" =>
                artifacts[i].s3_key \in objects /\ artifacts[i].etag # NULL
        /\ artifacts[i].status = "PENDING" =>
                artifacts[i].etag = NULL /\ artifacts[i].size_bytes = NoSize

\* the put failed on every attempt: the run is FAILED, the row still PENDING
C16_Witness ==
    \E i \in ManifestRows, f \in Flows :
        /\ artifacts[i].status = "PENDING"
        /\ flow[f].pc = "failed"
        /\ runs[flow[f].run_id].status = "FAILED"
        /\ artifacts[i].s3_key \notin objects

\* C17: for each PENDING manifest row the reconciler examines, the store's
\* answer is "present" exactly when the object exists; the row is set to
\* AVAILABLE with the object's etag and size exactly on "present" and to
\* FAILED exactly on "absent"; any other store failure changes no row.
C17_ReconcilerFollowsStore ==
    [][/\ (recon.pc = "head" /\ recon'.pc = "update") =>
            (recon'.head.etag # NULL <=>
                artifacts[recon.pending[recon.idx]].s3_key \in objects)
       /\ (recon.pc = "update" /\ recon'.pc # "update") =>
            LET id == recon.pending[recon.idx] IN
                IF recon.head.etag # NULL
                THEN /\ artifacts'[id].status = "AVAILABLE"
                     /\ artifacts'[id].etag = recon.head.etag
                     /\ artifacts'[id].size_bytes = recon.head.size
                ELSE /\ artifacts'[id].status = "FAILED"
                     /\ artifacts'[id].etag = artifacts[id].etag
       /\ (recon.pc = "head" /\ recon'.pc = "raised") => artifacts' = artifacts
      ]_vars

\* the reconciler found the object of a PENDING row and made the row AVAILABLE
C17_Witness ==
    \E i \in ManifestRows :
        /\ recon.approved > 0
        /\ artifacts[i].status = "AVAILABLE"
        /\ artifacts[i].etag = StoredEtag
        /\ artifacts[i].s3_key \in objects

(***************************************************************************)
(*                 Properties of process_ingest_run                        *)
(***************************************************************************)
\* the scan of run r has no AVAILABLE raw.point_cloud artifact
NoCloud(r) ==
    ~\E i \in DOMAIN artifacts :
        /\ artifacts[i].scan_id = runs[r].scan_id
        /\ artifacts[i].schema_version = NULL
        /\ artifacts[i].status = "AVAILABLE"
        /\ artifacts[i].kind = "raw.point_cloud"

\* C18: when process_ingest_run executes for a run whose scan has no
\* AVAILABLE raw.point_cloud artifact, the input check raises, the run is
\* stamped FAILED with finished_at, and afterwards no
\* derived.ingest_manifest row of the scan and schema_version is AVAILABLE.
C18_MissingCloudFails ==
    [][\A f \in Flows :
        LET r == flow[f].run_id IN
        /\ (flow[f].pc = "proc_body" /\ flow'[f].pc # "proc_body" /\ NoCloud(r)) =>
                flow'[f].pc = "proc_fail"
        /\ (flow[f].pc = "proc_fail" /\ flow'[f].pc # "proc_fail" /\ NoCloud(r)) =>
                /\ runs'[r].status = "FAILED"
                /\ runs'[r].finished_at
                /\ \A i \in DOMAIN artifacts' :
                        (/\ artifacts'[i].kind = ManifestKind
                         /\ artifacts'[i].scan_id = runs[r].scan_id
                         /\ artifacts'[i].schema_version = runs[r].schema_version)
                        => artifacts'[i].status # "AVAILABLE"
      ]_vars

\* both attempts of the activity failed on a scan that has a trajectory but
\* no point cloud
C18_Witness ==
    \E f \in Flows :
        /\ flow[f].pc = "failed"
        /\ NoCloud(flow[f].run_id)
        /\ runs[flow[f].run_id].status = "FAILED"
        /\ \E i \in DOMAIN artifacts : artifacts[i].kind = "raw.trajectory"

\* C19: a run stamped FAILED because the raw point cloud is missing is not
\* taken up by process_ingest_run again unless the workflow was given
\* force=true.
C19_FatalNotReprocessedWithoutForce ==
    [][\A f \in Flows :
        LET r == flow[f].run_id IN
        (/\ flow[f].pc = "proc_start"
         /\ flow'[f].pc = "proc_body"
         /\ flow[f].attempt >= 1
         /\ runs[r].status = "FAILED"
         /\ runs[r].finished_at
         /\ NoCloud(r)) => flow[f].force
      ]_vars

\* the run carries a final status and its finish time
Stamped(r) ==
    /\ r \in DOMAIN runs
    /\ runs[r].status \in {"SUCCEEDED", "FAILED"}
    /\ runs[r].finished_at

C21_OneAvailablePerDerivedKey ==
    \A s \in ScanIds, k \in DerivedKinds :
        Cardinality({i \in DerivedRows(artifacts, s, k, DEFAULT_SCHEMA_VERSION) :
                        artifacts[i].status = "AVAILABLE"}) <= 1

\* the call u repeats, with the same inputs, a call that had returned before
\* u began
RepeatsEarlierCall(u) ==
    \E v \in ups[u].after :
        /\ ups[v].scan_id = ups[u].scan_id
        /\ ups[v].kind = ups[u].kind
        /\ ups[v].etag = ups[u].etag
        /\ ups[v].status = ups[u].status

\* C22: when upsert_derived_artifact has run twice with the same inputs, the
\* key (scan_id, kind, schema_version) has exactly one artifact row, and
\* the row carries the etag and size_bytes of the first run.
C22_UpsertTwiceLeavesOneRow ==
    [][\A u \in Upserts :
        (ups[u].pc = "selected" /\ ups'[u].pc = "done" /\ RepeatsEarlierCall(u)) =>
            LET rows == DerivedRows(artifacts', ups[u].scan_id, ups[u].kind, DEFAULT_SCHEMA_VERSION)
            IN /\ Cardinality(rows) = 1
               /\ \A i \in rows : artifacts'[i].etag = ups[u].etag /\ artifacts'[i].size_bytes = 1
      ]_vars

(***************************************************************************)
(*                   Properties of the raw artifact rows                   *)
(***************************************************************************)
\* C23: each scan has at most one raw artifact row (schema_version NULL)
\* for each of the kinds raw.point_cloud, raw.trajectory, raw.control_point.
C23_OneRawRowPerKind ==
    \A s \in ScanIds, k \in UploadKinds : Cardinality(RawRows(s, k)) <= 1

\* C25: the fingerprint depends only on the set of projected raw artifacts:
\* two calls given the same artifacts, in whatever order, return the same
\* digest.
C25_FingerprintIgnoresOrder ==
    \A a, b \in fpr : Range(a.ids) = Range(b.ids) => a.hash = b.hash

(***************************************************************************)
(*                        Properties of create_scan                        *)
(***************************************************************************)
\* the company of a scan row is the company of the dataset that owns the
\* scan's dataset version
ScanOwnerOK(row, dss, dvs) ==
    /\ row.dataset_version_id \in DOMAIN dvs
    /\ dss[dvs[row.dataset_version_id].dataset_id].company_id = row.company_id

\* the company of the call does not own the dataset version of the call
CallOfStranger(call) ==
    /\ call.dataset_version_id \in DOMAIN dataset_versions
    /\ datasets[dataset_versions[call.dataset_version_id].dataset_id].company_id # call.company_id

\* C24: every scan row's company_id equals the company_id of the dataset
\* that owns the scan's dataset version; a create_scan call by a company
\* that does not own the dataset version raises and inserts no scan.
C24_ScanCompanyIsDatasetCompany ==
    [][/\ \A i \in DOMAIN scan_rows' : ScanOwnerOK(scan_rows'[i], datasets', dataset_versions')
       /\ (scan_call' # scan_call /\ CallOfStranger(scan_call'))
            => (scan_call'.result = "raised" /\ scan_rows' = scan_rows)
      ]_vars

\* a scan was created by the owner, and a stranger's call was refused
C24_Witness ==
    /\ scan_rows # <<>>
    /\ CallOfStranger(scan_call)
    /\ scan_call.result = "raised"

(***************************************************************************)
(*                      Properties of ensure_dataset                       *)
(***************************************************************************)
\* the rows of a (company, name) key
DatasetRows(dss, company_id, name) ==
    {i \in DOMAIN dss : dss[i].company_id = company_id /\ dss[i].name = name}

\* the ensure_dataset call t, which found no row and went on to insert,
\* returns or raises in this step
EnsureDatasetEnds(t) ==
    /\ tx[t].op = "ensure_dataset"
    /\ tx[t].pc \in {"flush", "commit", "reread"}
    /\ tx'[t].pc \in {"done", "failed"}

\* no row of the key carries another crs_id than the call's: the calls on
\* the key agree on the crs
AgreedCrs(t) ==
    \A i \in DatasetRows(datasets', tx[t].company_id, tx[t].name) :
        datasets'[i].crs_id = tx[t].crs_id

\* the call ends by returning the id of the one row of its key
ReturnsTheOneRow(t) ==
    /\ tx'[t].pc = "done"
    /\ DatasetRows(datasets', tx[t].company_id, tx[t].name) = {tx'[t].result}

PastIngest(p) == p.pc \in {"profiling", "reproject"}

\* C27: in every orchestrator run that goes on after its ingest stage, all
\* scans were ingested into one dataset version; a run in which a scan's
\* ingest returned another dataset_version_id fails.
C27_OneDatasetVersionPerPipeline ==
    \A k \in Orchestrators :
        PastIngest(pipe[k]) =>
            \A i, j \in DOMAIN pipe[k].results :
                pipe[k].results[i].dataset_version_id = pipe[k].results[j].dataset_version_id

\* C28: a repository call is atomic.  The step in which a call raises leaves
\* the datasets and dataset_versions tables as they were; the step in which
\* a call that has flushed an INSERT returns normally puts the new row, and
\* for a bump the deactivation of the row it locked, into the tables; and
\* the tables change in no other step, so nothing a call writes is visible
\* before it has returned.
C28_RepositoryCallIsAtomic ==
    [][/\ \A t \in Txns :
            /\ (tx[t].pc # "failed" /\ tx'[t].pc = "failed") =>
                    /\ datasets' = datasets
                    /\ dataset_versions' = dataset_versions
            /\ (tx[t].pc = "commit" /\ tx'[t].pc = "done") =>
                    IF tx[t].op = "ensure_dataset"
                    THEN /\ tx'[t].result \in DOMAIN datasets' \ DOMAIN datasets
                         /\ datasets'[tx'[t].result] =
                                [company_id |-> tx[t].company_id, name |-> tx[t].name,
                                 crs_id |-> tx[t].crs_id]
                    ELSE /\ tx'[t].result \in DOMAIN dataset_versions' \ DOMAIN dataset_versions
                         /\ dataset_versions'[tx'[t].result] =
                                [dataset_id |-> tx[t].dataset_id,
                                 version |-> tx[t].new_version, is_active |-> TRUE]
                         /\ tx[t].active # 0 => ~dataset_versions'[tx[t].active].is_active
       /\ (datasets' # datasets \/ dataset_versions' # dataset_versions) =>
            \E t \in Txns : tx[t].pc = "commit" /\ tx'[t].pc = "done"
      ]_vars

\* one bump has committed and another, having waited for its lock and
\* flushed, has raised
C28_Witness ==
    \E t, u \in Txns :
        /\ tx[t].op = "bump_dataset_version" /\ tx[t].pc = "failed" /\ tx[t].waited
        /\ tx[u].op = "bump_dataset_version" /\ tx[u].pc = "done"

\* the edges submitted so far under one key, as <<call, position>> pairs
Submitted(key) ==
    {p \in (DOMAIN edge_calls) \X (1..MaxEdges) :
        /\ p[2] \in DOMAIN edge_calls[p[1]].edges
        /\ LET e == edge_calls[p[1]].edges[p[2]]
           IN <<edge_calls[p[1]].dataset_version_id, e.from, e.to, e.kind>> = key}

SubmittedEdge(p) == edge_calls[p[1]].edges[p[2]]

\* the pair of the most recent submission
LastSubmitted(S) ==
    CHOOSE p \in S : \A q \in S : q[1] < p[1] \/ (q[1] = p[1] /\ q[2] <= p[2])

SubmittedKeys ==
    {<<edge_calls[c].dataset_version_id, e.from, e.to, e.kind>> :
        c \in DOMAIN edge_calls, e \in EdgeInputs}

\* C29: after any sequence of add_scan_edges calls, every key that was
\* submitted has exactly one row in core.scan_edges, whose weight is the
\* largest weight submitted under the key and whose transform_guess and meta
\* are those of the most recent submission.
C29_EdgeUpsertKeepsMaxAndLatest ==
    \A key \in SubmittedKeys :
        Submitted(key) # {} =>
            LET rows == {r \in scan_edges : EdgeKey(r) = key}
                last == SubmittedEdge(LastSubmitted(Submitted(key)))
            IN /\ Cardinality(rows) = 1
               /\ \A r \in rows :
                    /\ r.weight = SetMax({SubmittedEdge(p).weight : p \in Submitted(key)})
                    /\ r.transform_guess = last.transform_guess
                    /\ r.meta = last.meta

\* C30: two calls of build_ingest_manifest with the same ingest run, scan and
\* raw artifacts return the same JSON document.
C30_ManifestIsDeterministic ==
    \A i, j \in DOMAIN built : built[i].args = built[j].args => built[i].json = built[j].json

\* C31: the logic record a SmartIngestWorkflow run returns has georeference
\* "NO" below five scans and "YES" from five on, reproject "YES", and as
\* target_crs_id the override CRS when one was supplied and the CRS of the
\* dataset otherwise.
C31_SmartIngestLogicRecord ==
    wf.smart.pc = "Completed" =>
        /\ wf.smart.logic.georeference = (IF wf.smart.scan_count < 5 THEN "NO" ELSE "YES")
        /\ wf.smart.logic.reproject = "YES"
        /\ wf.smart.logic.target_crs_id =
                (IF wf.smart.override_crs_id # NULL THEN wf.smart.override_crs_id
                 ELSE datasets[wf.smart.dataset_id].crs_id)

\* a custom UTM descriptor with datum WGS84 has been normalized
UtmWgs84Done ==
    /\ wf.norm.pc = "done"
    /\ wf.norm.crs.zone_family = "UTM" /\ wf.norm.crs.datum = "WGS84"

UtmEpsg(crs) == (IF crs.utm_hemisphere = "N" THEN 32600 ELSE 32700) + crs.utm_zone

\* C32 as stated: a custom UTM descriptor with datum WGS84 fails for zone 0
\* or 61 and for a hemisphere other than "N" or "S", and succeeds for zones
\* 1..60 with EPSG 32600+zone (N) or 32700+zone (S).
C32_UtmZoneAndHemisphere ==
    UtmWgs84Done =>
        LET crs == wf.norm.crs
        IN /\ (crs.utm_zone \in {0, 61} \/ crs.utm_hemisphere \notin {"N", "S"}) =>
                    ~wf.norm.result.ok
           /\ (crs.utm_zone \in 1..60 /\ crs.utm_hemisphere \in {"N", "S"}) =>
                    wf.norm.result.ok /\ wf.norm.result.epsg = UtmEpsg(crs)

\* C32 amended: the same, where success for zones 1..60 is claimed only for a
\* descriptor whose z_mode is not orthometric or that names a geoid_model.
C32_UtmZoneAndHemisphereGivenGeoid ==
    UtmWgs84Done =>
        LET crs == wf.norm.crs
        IN /\ (crs.utm_zone \in {0, 61} \/ crs.utm_hemisphere \notin {"N", "S"}) =>
                    ~wf.norm.result.ok
           /\ (/\ crs.utm_zone \in 1..60 /\ crs.utm_hemisphere \in {"N", "S"}
               /\ (crs.z_mode # "orthometric" \/ Truthy(crs.geoid_model))) =>
                    wf.norm.result.ok /\ wf.norm.result.epsg = UtmEpsg(crs)

\* zone 60 of the southern hemisphere has been normalized to EPSG:32760
C32_Witness ==
    /\ UtmWgs84Done
    /\ wf.norm.crs.utm_zone = 60 /\ wf.norm.crs.utm_hemisphere = "S"
    /\ wf.norm.result.ok /\ wf.norm.result.epsg = 32760

\* an MSK descriptor with variant gost and helmert_convention
\* position_vector has been normalized
MskGostDone ==
    /\ wf.norm.pc = "done"
    /\ wf.norm.crs.zone_family = "MSK" /\ wf.norm.crs.msk_variant = "gost"
    /\ wf.norm.crs.helmert_convention = "position_vector"

PresetTowgs84(crs) ==
    IF crs.msk_region \in DOMAIN MskPresets THEN MskPresets[crs.msk_region].gost_towgs84
    ELSE NULL

\* C33: for an MSK descriptor with variant gost and helmert_convention
\* position_vector, a returned record carries the descriptor's towgs84 when
\* the descriptor has one and the region preset's gost_towgs84 otherwise, and
\* no record is returned when neither exists.
C33_GostTowgs84FromDescriptorOrPreset ==
    MskGostDone =>
        LET crs == wf.norm.crs
        IN /\ wf.norm.result.ok =>
                wf.norm.result.towgs84 =
                    (IF Truthy(crs.towgs84) THEN crs.towgs84 ELSE PresetTowgs84(crs))
           /\ (~Truthy(crs.towgs84) /\ ~Truthy(PresetTowgs84(crs))) => ~wf.norm.result.ok

\* region 66 zone 1 without towgs84 has been normalized with the preset's
C33_Witness ==
    /\ MskGostDone
    /\ wf.norm.crs.msk_region = 66 /\ wf.norm.crs.towgs84 = NULL
    /\ wf.norm.result.ok
    /\ wf.norm.result.towgs84 = "23.57,-140.95,-79.8,0,0.35,0.79,-0.22"

\* C34: whenever StartIngestUseCase.execute ends by raising, whichever call
\* failed and with whatever exception, the last status that execution wrote
\* to the KV store for its workflow_id is FAILED.
C34_RaisedExecuteLeavesFailed ==
    \A e \in Execs :
        uc[e].pc = "raised" =>
            /\ StatusWrites(e) # {}
            /\ uc[e].log[SetMax(StatusWrites(e))].status = "FAILED"

RunKey(r) == <<r.company_id, r.scan_id, r.schema_version, r.input_fingerprint>>

\* C35: a create_ingest_run call without force never adds a second ingest
\* run row for a (company_id, scan_id, schema_version, input_fingerprint)
\* that already has one, also when calls for the same scan overlap.
C35_NoSecondRunWithoutForce ==
    [][\A f \in Flows :
            (flow[f].pc = "insert" /\ flow'[f].pc # "insert" /\ ~flow[f].force) =>
                \A i \in DOMAIN runs : RunKey(runs[i]) # RunKey(runs'[Len(runs')])]_vars

\* C36: once IN_PROGRESS, DONE or FAILED has been written for a new-pipeline
\* workflow id, the status in the KV store never goes back to STARTED.
C36_StatusNeverBackToStarted ==
    [][wf.np.kv \in {"IN_PROGRESS", "DONE", "FAILED"} => wf'.np.kv # "STARTED"]_vars

\* C37: a NewArchitectureWorkflow run writes DONE only after the publish
\* stage succeeded, has written FAILED when it ends after a stage raised
\* (unless the status activity itself gave up), and never writes both DONE
\* and FAILED.
C37_DoneAndFailedExclusive ==
    /\ "DONE" \in wf.np.written => wf.np.publish_ok
    /\ (wf.np.run = "raised" /\ wf.np.stage_raised /\ ~wf.np.notify_error) =>
            "FAILED" \in wf.np.written
    /\ ~("DONE" \in wf.np.written /\ "FAILED" \in wf.np.written)

\* the AVAILABLE ingest manifest of a run's scan and schema version, 0 if none
AvailableManifest(rows, r) ==
    LET hits == {i \in DOMAIN rows :
                    /\ rows[i].scan_id = r.scan_id
                    /\ rows[i].kind = ManifestKind
                    /\ rows[i].schema_version = r.schema_version
                    /\ rows[i].status = "AVAILABLE"}
    IN IF hits = {} THEN 0 ELSE SetMax(hits)

\* C38: whenever process_ingest_run stamps a run SUCCEEDED, the AVAILABLE
\* derived.ingest_manifest of that scan and schema version is the one built
\* for that run (it carries that run's id and input fingerprint).
C38_SucceededRunOwnsManifest ==
    [][\A f \in Flows :
            (flow[f].pc \in {"proc_short", "proc_succeed"} /\ flow'[f].pc = "done") =>
                LET r == flow[f].run_id
                    a == AvailableManifest(artifacts', runs[r])
                IN a # 0 /\ artifacts'[a].etag = ManifestEtag(r)]_vars

\* the tile list of the run: that of the execution in progress
ClusterTiles == wf.cluster.local_tiles

\* C39: across the continue-as-new executions of one ClusterPipeline run
\* with batch_size >= 1 the tiles of the sorted tile list are processed once
\* each, in order, and the final merge gets one cropped tile per tile.
C39_EveryTileOnceInOrder ==
    LET c == wf.cluster
    IN /\ c.pc \in {"process", "done"} =>
            /\ \A i, j \in 1..Len(ClusterTiles) : i < j => ClusterTiles[i] < ClusterTiles[j]
            /\ Len(c.processed) <= Len(ClusterTiles)
            /\ c.processed = SubSeq(ClusterTiles, 1, Len(c.processed))
       /\ c.merge_args # NULL =>
            /\ c.processed = ClusterTiles
            /\ c.merge_args = [k \in 1..Len(ClusterTiles) |-> CroppedTile(ClusterTiles[k])]

C39_Witness ==
    /\ wf.cluster.pc = "done"
    /\ wf.cluster.execution >= 2
    /\ Len(wf.cluster.local_tiles) = MaxTiles

\* C40: however many trigger_registration signals arrive, and whenever they
\* arrive relative to the run, MlsPipelineWorkflow starts the
\* registration-solver child workflow at most once.
C40_SolverStartedAtMostOnce ==
    Len(wf.mls.solver_starts) + Len(wf.mls.starting) <= 1

C40_Witness ==
    /\ wf.mls.signals = MaxSignals
    /\ Len(wf.mls.solver_starts) = 1
    /\ wf.mls.solver_starts[1].who = "signal"
    /\ wf.mls.pc = "done"

====
